---- MODULE Spec2Model ----
(***************************************************************************)
(* State-machine model of the WebSocket messaging fabric of                *)
(* imsdk-server-core: the Message Server (WssServer), its per-connection   *)
(* Session (WssSession) and the Bridge Client (WssBridge).                 *)
(***************************************************************************)
EXTENDS Integers, Sequences, FiniteSets, TLC

(* ------------------------------ bounds --------------------------------- *)
\* number of connections the server accepts in one run
MaxSessions == 2
\* UIDs are 0..MaxUid; 0 is the UID whose truth value is false in `!!uid`
MaxUid == 1
\* group ids are 1..MaxGid
MaxGid == 2
\* request ids a peer puts on the wire are 1..MaxReqId
MaxReqId == 3
\* WssServerConfig.reqIdCache, the capacity of the recent-request ring
ReqIdCache == 2

\* requests a Bridge Client issues in one run
MaxRequests == 1
\* ticks of the Bridge Client's 1 Hz timer in one run
MaxTicks == 2
\* last instant of the clock
MaxTime == 2
\* WssBridge timeout, heartick and conntick of the modelled client
Timeout == 1
Heartick == 2
Conntick == 1
\* peers of a node group
MaxPeers == 2
\* listeners registered for one route
MaxListeners == 2

\* WssServerConfig.cycle and timeout (start() requires timeout >= 3 * cycle)
Cycle == 2
ServerTimeout == 3 * Cycle
\* last instant of the clock of a supervised server
MaxHeartTime == ServerTimeout + Cycle + 1

SessionIds == 1..MaxSessions
UIDs == 0..MaxUid
Gids == 1..MaxGid

(* --------------------------- program constants ------------------------- *)
CODE_PARSE == 4001
CODE_FORMAT == 4002
CODE_REPEAT == 4003
CODE_SIGN == 4004
CODE_REMOTE == 4005
CODE_ROUTE == 4006
CODE_SOCKET == 4007
CODE_TIMEOUT == 4008
CODE_NEWBIND == 4009

\* value of WssSession._uid before any bind and after unbind (null)
NoUid == -1
\* absent entry of _sessionMap (session ids start at 1)
NoSession == 0
\* absent entry of _channelMap
NoChannel == [present |-> FALSE, count |-> 0, sessions |-> {}]
\* WssServerConfig.pwd = null
NoPwd == "<null>"
\* an absent tid of an inner envelope, an absent reqId argument
NoTid == -1
\* WssServer._cycleTicker = null
NoTicker == -1
\* the socket the client holds has no server end
NoLink == [sid |-> 0, frames |-> <<>>]
\* what a session-close listener finds when it looks at its session: whether
\* the session is in _socketMap, the channels it has joined and is a member
\* of, its uid, and the keys of _sessionMap that hold it (here: no listener
\* was called)
NoView == [sid |-> 0, inSockets |-> FALSE, channel |-> {}, uid |-> NoUid,
           keys |-> {}]
\* no answer: the handler of a frame does not call response
NoEnv == [kind |-> "none", code |-> 0, time |-> 0]
\* a step that made no observable call: no close, no handler invoked (call,
\* with the route, reqId and message of the packet handed to it and the
\* envelope it answers with), no frames handed to sockets, no requests
\* handed to peers
NoFx == [closeSid |-> 0, closeCode |-> 0, call |-> "none", route |-> "",
         tid |-> NoTid, reqId |-> -1, frames |-> {}, requests |-> {},
         message |-> "", env |-> NoEnv, view |-> NoView]
\* the last step called close(code) on session s and nothing else
CloseFx(s, code) == [NoFx EXCEPT !.closeSid = s, !.closeCode = code]

VARIABLES
    increment,    \* WssSession._increment: id of the next session
    socketMap,    \* WssServer._socketMap: set of session ids
    sessionMap,   \* WssServer._sessionMap: uid key -> session id or NoSession
    channelMap,   \* WssServer._channelMap: gid -> channel record
    socket,       \* WssSession._socket: TRUE while the reference is held
    readyState,   \* readyState of the session's underlying WebSocket
    closeCode,    \* code the underlying WebSocket was closed with by the server
    uid,          \* WssSession._uid
    channel,      \* WssSession._channel: set of gids
    reqIdList,    \* WssSession._reqIdList: the recent-request ring
    lastHeart,    \* WssSession._lastHeart
    routerMap,    \* WssServer._routerMap: routes that have a handler
    remoteMap,    \* WssServer._remoteMap: routes that have a remote handler
    pwd,          \* WssServerConfig.pwd
    reqIdCache,   \* WssServerConfig.reqIdCache
    link,         \* server end of the client's socket: session, frames to read
    now,          \* Date.now()
    fx,           \* calls made by the last step: Session.close, pushes, handlers
    cycleTicker,  \* WssServer._cycleTicker: due time of the next cycle
    totalSocket,  \* WssServer._totalSocket
    totalSession, \* WssServer._totalSession
    cSocket,      \* WssBridge._socket: "null" or the readyState of the socket
    stale,        \* sockets dropped by safeClose whose close event is to come
    timer,        \* WssBridge._timer: TRUE while the interval is set
    timerInc,     \* WssBridge._timerInc
    reqIdInc,     \* WssBridge._reqIdInc
    netDelay,     \* WssBridge._netDelay
    retryCnt,     \* WssBridge._retryCnt
    requests,     \* WssBridge._requests: reqId -> submission time or NoRequest
    paused,       \* WssBridge._paused
    expired,      \* WssBridge._expired
    sent,         \* reqIds of the request frames handed to a socket
    inflight,     \* reqIds sent on the connection that is open now
    hbTime,       \* message of the heartbeat sent on the open connection
    callSuccess,  \* reqId -> number of WssBridgeRequest.callSuccess calls
    callError,    \* reqId -> codes passed to WssBridgeRequest.callError
    late,         \* reqIds seen pending at an age above the timeout
    offline,      \* reqIds requested with a callback while not connected
    listeners,    \* WssBridge._listeners: route -> listeners in order
    cfx           \* what the last step of the client did

\* state of the receive pipeline
pipeVars == <<reqIdList, lastHeart, routerMap, remoteMap, pwd, reqIdCache, link,
              now>>

\* state of the supervisor cycle
cycVars == <<cycleTicker, totalSocket, totalSession>>

\* state of the Bridge Client
cliVars == <<cSocket, stale, timer, timerInc, reqIdInc, netDelay, retryCnt,
             requests, paused, expired, sent, inflight, hbTime, callSuccess,
             callError, late, offline, listeners, cfx>>

\* state of the Message Server without its configuration and clock
srvVars == <<increment, socketMap, sessionMap, channelMap, socket, readyState,
             closeCode, uid, channel, reqIdList, lastHeart, routerMap,
             remoteMap, fx, cycVars>>

vars == <<increment, socketMap, sessionMap, channelMap, socket, readyState,
          closeCode, uid, channel, pipeVars, fx, cycVars, cliVars>>

(* ------------------------------ Session -------------------------------- *)
\* sessions that have been constructed
Created == 1..(increment - 1)

\* WssSession.isBinded: !!this._uid
isBinded(u) == u # NoUid /\ u # 0

\* key of a uid in _sessionMap: uid.toString()
Key(u) == u

\* WssSession.close that closes the underlying socket again on every call
SessionCloseAgain(st, s, code) ==
    [socket |-> [st.socket EXCEPT ![s] = FALSE],
     readyState |-> IF st.readyState[s] = "OPEN"
                    THEN [st.readyState EXCEPT ![s] = "CLOSING"]
                    ELSE st.readyState,
     closeCode |-> [st.closeCode EXCEPT ![s] = code]]

\* WssSession.close on the pair (socket, readyState, closeCode) of session s:
\* the underlying close takes effect only on an OPEN socket, the reference
\* is dropped in any case.
SessionClose(st, s, code) ==
    IF st.socket[s]
    THEN [socket |-> [st.socket EXCEPT ![s] = FALSE],
          readyState |-> IF st.readyState[s] = "OPEN"
                         THEN [st.readyState EXCEPT ![s] = "CLOSING"]
                         ELSE st.readyState,
          closeCode |-> IF st.readyState[s] = "OPEN"
                        THEN [st.closeCode EXCEPT ![s] = code]
                        ELSE st.closeCode]
    ELSE st

SockState == [socket |-> socket, readyState |-> readyState, closeCode |-> closeCode]

(* ------------------------- WssServer: uid index ------------------------ *)
\* WssServer.unbindUid on the pair (uid, sessionMap)
unbindUid(st, s) ==
    IF ~isBinded(st.uid[s])
    THEN st
    ELSE [uid |-> [st.uid EXCEPT ![s] = NoUid],
          sessionMap |-> [st.sessionMap EXCEPT ![Key(st.uid[s])] = NoSession]]

UidState == [uid |-> uid, sessionMap |-> sessionMap]

\* bindUid that forgets to unbind the session that held the uid
bindUidKeepOld(s, u) ==
    LET st2 == unbindUid(UidState, s)
    IN  [uid |-> [st2.uid EXCEPT ![s] = u],
         sessionMap |-> [st2.sessionMap EXCEPT ![Key(u)] = s]]

\* WssServer.bindUid on (uid, sessionMap): the result after both unbinds,
\* session.bindUid and the insertion
bindUidResult(s, u) ==
    LET old == sessionMap[Key(u)]
        st1 == IF old # NoSession THEN unbindUid(UidState, old) ELSE UidState
        st2 == unbindUid(st1, s)
    IN  [uid |-> [st2.uid EXCEPT ![s] = u],
         sessionMap |-> [st2.sessionMap EXCEPT ![Key(u)] = s]]

BindUid(s, u, closeold) ==
    /\ s \in Created
    /\ LET old == sessionMap[Key(u)]
           res == bindUidResult(s, u)
           cls == IF old # NoSession /\ closeold
                  THEN SessionClose(SockState, old, CODE_NEWBIND)
                  ELSE SockState
       IN  /\ uid' = res.uid
           /\ sessionMap' = res.sessionMap
           /\ socket' = cls.socket
           /\ readyState' = cls.readyState
           /\ closeCode' = cls.closeCode
           /\ fx' = IF old # NoSession /\ closeold
                    THEN CloseFx(old, CODE_NEWBIND)
                    ELSE NoFx
    /\ UNCHANGED <<cliVars, cycVars, increment, socketMap, channelMap, channel, pipeVars>>

UnbindUid(s) ==
    /\ s \in Created
    /\ LET res == unbindUid(UidState, s)
       IN  /\ uid' = res.uid
           /\ sessionMap' = res.sessionMap
    /\ fx' = NoFx
    /\ UNCHANGED <<cliVars, cycVars, increment, socketMap, channelMap, socket, readyState,
                   closeCode, channel, pipeVars>>

(* ------------------------- WssServer: channels ------------------------- *)
ChanState == [channel |-> channel, channelMap |-> channelMap]

\* joinChannel that counts a join without looking at the member set
joinChannelAlways(st, s, g) ==
    LET ch == IF st.channelMap[g].present
              THEN st.channelMap[g]
              ELSE [present |-> TRUE, count |-> 0, sessions |-> {}]
    IN  [channel |-> [st.channel EXCEPT ![s] = @ \cup {g}],
         channelMap |-> [st.channelMap EXCEPT ![g] =
             [present |-> TRUE, count |-> ch.count + 1,
              sessions |-> ch.sessions \cup {s}]]]

\* WssServer.joinChannel on the pair (channel, channelMap)
joinChannel(st, s, g) ==
    LET ch == IF st.channelMap[g].present
              THEN st.channelMap[g]
              ELSE [present |-> TRUE, count |-> 0, sessions |-> {}]
    IN  IF s \notin ch.sessions
        THEN [channel |-> [st.channel EXCEPT ![s] = @ \cup {g}],
              channelMap |-> [st.channelMap EXCEPT ![g] =
                  [present |-> TRUE, count |-> ch.count + 1,
                   sessions |-> ch.sessions \cup {s}]]]
        ELSE [channel |-> st.channel,
              channelMap |-> [st.channelMap EXCEPT ![g] = ch]]

\* WssServer.quitChannel on the pair (channel, channelMap)
quitChannel(st, s, g) ==
    IF ~st.channelMap[g].present
    THEN st
    ELSE LET ch == st.channelMap[g]
             member == s \in ch.sessions
             cnt == IF member THEN ch.count - 1 ELSE ch.count
             mem == IF member THEN ch.sessions \ {s} ELSE ch.sessions
         IN  [channel |-> IF member
                          THEN [st.channel EXCEPT ![s] = @ \ {g}]
                          ELSE st.channel,
              channelMap |-> [st.channelMap EXCEPT ![g] =
                  IF cnt <= 0 THEN NoChannel
                  ELSE [present |-> TRUE, count |-> cnt, sessions |-> mem]]]

\* WssServer.deleteChannel that drops the registry entry and leaves the
\* channel sets of the members alone
deleteChannelRegistryOnly(st, g) ==
    IF ~st.channelMap[g].present
    THEN st
    ELSE [channel |-> st.channel,
          channelMap |-> [st.channelMap EXCEPT ![g] = NoChannel]]

\* WssServer.deleteChannel on the pair (channel, channelMap)
deleteChannel(st, g) ==
    IF ~st.channelMap[g].present
    THEN st
    ELSE [channel |-> [x \in SessionIds |->
                         IF x \in st.channelMap[g].sessions
                         THEN st.channel[x] \ {g} ELSE st.channel[x]],
          channelMap |-> [st.channelMap EXCEPT ![g] = NoChannel]]

JoinChannel(s, g) ==
    /\ s \in Created
    /\ LET res == joinChannel(ChanState, s, g)
       IN  /\ channel' = res.channel
           /\ channelMap' = res.channelMap
    /\ fx' = NoFx
    /\ UNCHANGED <<cliVars, cycVars, increment, socketMap, sessionMap, socket, readyState,
                   closeCode, uid, pipeVars>>

QuitChannel(s, g) ==
    /\ s \in Created
    /\ LET res == quitChannel(ChanState, s, g)
       IN  /\ channel' = res.channel
           /\ channelMap' = res.channelMap
    /\ fx' = NoFx
    /\ UNCHANGED <<cliVars, cycVars, increment, socketMap, sessionMap, socket, readyState,
                   closeCode, uid, pipeVars>>

DeleteChannel(g) ==
    /\ LET res == deleteChannel(ChanState, g)
       IN  /\ channel' = res.channel
           /\ channelMap' = res.channelMap
    /\ fx' = NoFx
    /\ UNCHANGED <<cliVars, cycVars, increment, socketMap, sessionMap, socket, readyState,
                   closeCode, uid, pipeVars>>

(* ---------------------------- Packet Codec ----------------------------- *)
\* request ids on the wire are 1..MaxReqId
ReqIds == 1..MaxReqId
\* a route field that is absent, and one that is present but not a string
Undefined == "<undefined>"
NonString == "<number>"
\* a reqId field that is absent or not of type number
NotNumber == -1
\* WssServerConfig.secret of this node, and a secret this node does not use
Secret == "s"
ForgedSecret == "x"

\* EnvContext.getMd5, as a collision-free digest of the hashed fields
getMd5(data) == <<"md5">> \o data

\* the `message` field of a packet: absent, null, an application payload, or
\* an inner cluster envelope {tid, route, message, word, sign}
Message(kind, tid, route, word, sign) ==
    [kind |-> kind, tid |-> tid, route |-> route, body |-> "m",
     word |-> word, sign |-> sign]
MsgUndefined == [Message("undefined", NoTid, "", "", <<>>) EXCEPT !.body = ""]
MsgNull == [Message("null", NoTid, "", "", <<>>) EXCEPT !.body = ""]
MsgData == Message("data", NoTid, "", "", <<>>)

\* WssBridgePackData: the result of deserialize (null when it fails)
Pack(route, reqId, message) ==
    [null |-> FALSE, route |-> route, reqId |-> reqId, message |-> message]
NullPack == [Pack(Undefined, NotNumber, MsgUndefined) EXCEPT !.null = TRUE]

\* JSON.parse of the decrypted or received text followed by
\* new WssBridgePackData(obj.route, obj.reqId, obj.message)
parsePack(body) ==
    CASE body.json = "garbage" -> NullPack       \* JSON.parse throws
      [] body.json = "null" -> NullPack          \* obj.route of null throws
      [] body.json = "scalar" -> Pack(Undefined, NotNumber, MsgUndefined)
      [] OTHER -> Pack(body.route, body.reqId, body.message)

\* WssBridgePackData.deserialize: data is what serialize made of `body` with
\* password `key` (NoPwd: the JSON text itself), as ArrayBuffer or as text
deserialize(data, password) ==
    IF password # NoPwd
    THEN IF data.key = password THEN parsePack(data.body) ELSE NullPack
    ELSE IF data.binary THEN Pack(Undefined, NotNumber, MsgUndefined)
         ELSE IF data.key = NoPwd THEN parsePack(data.body) ELSE NullPack

\* JSON.stringify of a packet
Object(route, reqId, message) ==
    [json |-> "object", route |-> route, reqId |-> reqId, message |-> message]

\* WssServerConfig.binary
ConfigBinary == FALSE

\* WssBridgePackData.serialize: the JSON text, encrypted under the password
\* when there is one (as ArrayBuffer when binary, else as base64 text)
serialize(pack, password, binary) ==
    [key |-> password, binary |-> (password # NoPwd /\ binary),
     body |-> Object(pack.route, pack.reqId, pack.message)]

(* --------------------------- reserved routes --------------------------- *)
ROUTE_HEARTICK == "$heartick$"
ROUTE_RESPONSE == "$response$"
ROUTE_INNERP2P == "$innerP2P$"
ROUTE_INNERGRP == "$innerGRP"
ROUTE_INNERALL == "$innerALL$"
ROUTE_INNERRMC == "$innerRMC$"

(* ------------------------- Session: request ring ----------------------- *)
Range(seq) == {seq[i] : i \in 1..Len(seq)}

\* updateReqId that records the id without looking for it in the ring
updateReqIdNoCheck(list, reqId, cacheSize) ==
    [ok |-> TRUE,
     list |-> Append(IF Len(list) >= cacheSize
                     THEN SubSeq(list, (cacheSize \div 2) + 1, Len(list))
                     ELSE list, reqId)]

\* WssSession.updateReqId: [ok, list] is the returned flag and the new ring
updateReqId(list, reqId, cacheSize) ==
    IF reqId \in Range(list)
    THEN [ok |-> FALSE, list |-> list]
    ELSE [ok |-> TRUE,
          list |-> Append(IF Len(list) >= cacheSize
                          THEN SubSeq(list, (cacheSize \div 2) + 1, Len(list))
                          ELSE list, reqId)]

(* ----------------------- WssServer: receive pipeline ------------------- *)
\* _validateInnerData that accepts any envelope that carries a sign
validateInnerDataPresent(data) ==
    data.sign # <<>>

\* WssServer._validateInnerData
validateInnerData(data) ==
    getMd5(<<data.route, data.word, Secret>>) = data.sign

\* the outcome of a frame: the code of the close call (0: none), the new ring,
\* whether lastHeart is stamped, and the call made
Outcome(code, list, heart, call, route, tid, reqId) ==
    [code |-> code, list |-> list, heart |-> heart, call |-> call,
     route |-> route, tid |-> tid, reqId |-> reqId]
Closes(code, list) == Outcome(code, list, FALSE, "none", "", NoTid, -1)

\* a property name every plain object inherits from Object.prototype: the
\* handler maps are created as {} and read as map[route]
ObjectPrototype == {"toString"}

\* route dispatch of _onWebSocketMessage, after the three checks
dispatch(pack, list) ==
    LET m == pack.message
    IN  CASE pack.route = ROUTE_HEARTICK ->
               Outcome(0, list, TRUE, "sendHeartick", ROUTE_HEARTICK, NoTid,
                       pack.reqId)
          [] pack.route = ROUTE_INNERP2P ->
               IF validateInnerData(m)
               THEN Outcome(0, list, FALSE,
                            IF m.tid = NoTid THEN "TypeError" ELSE "pushSession",
                            m.route, m.tid, -1)
               ELSE Closes(CODE_SIGN, list)
          [] pack.route = ROUTE_INNERGRP ->
               IF validateInnerData(m)
               THEN Outcome(0, list, FALSE,
                            IF m.tid = NoTid THEN "TypeError" ELSE "pushChannel",
                            m.route, m.tid, -1)
               ELSE Closes(CODE_SIGN, list)
          [] pack.route = ROUTE_INNERALL ->
               IF validateInnerData(m)
               THEN Outcome(0, list, FALSE, "broadcast", m.route, NoTid, -1)
               ELSE Closes(CODE_SIGN, list)
          [] pack.route = ROUTE_INNERRMC ->
               IF validateInnerData(m)
               THEN IF m.route \in remoteMap
                    THEN Outcome(0, list, FALSE, "remote", m.route, NoTid,
                                 pack.reqId)
                    ELSE IF m.route \in ObjectPrototype
                    THEN Outcome(0, list, FALSE, "inherited", m.route, NoTid,
                                 pack.reqId)
                    ELSE Closes(CODE_REMOTE, list)
               ELSE Closes(CODE_SIGN, list)
          [] OTHER ->
               IF pack.route \in routerMap
               THEN Outcome(0, list, FALSE, "router", pack.route, NoTid,
                            pack.reqId)
               ELSE IF pack.route \in ObjectPrototype
               THEN Outcome(0, list, FALSE, "inherited", pack.route, NoTid,
                            pack.reqId)
               ELSE Closes(CODE_ROUTE, list)

\* _onWebSocketMessage that looks for a repeated reqId before it validates
\* the shape of the packet
onWebSocketMessageRingFirst(pack, list) ==
    IF pack.null
    THEN Closes(CODE_PARSE, list)
    ELSE LET upd == updateReqId(list, pack.reqId, reqIdCache)
         IN  IF ~upd.ok
             THEN Closes(CODE_REPEAT, list)
             ELSE IF \/ pack.route \in {Undefined, NonString}
                     \/ pack.reqId = NotNumber
                     \/ pack.message.kind \in {"undefined", "null"}
                  THEN Closes(CODE_FORMAT, upd.list)
                  ELSE dispatch(pack, upd.list)

\* WssServer._onWebSocketMessage on the deserialized pack and the ring of the
\* receiving session
onWebSocketMessage(pack, list) ==
    IF pack.null
    THEN Closes(CODE_PARSE, list)
    ELSE IF \/ pack.route \in {Undefined, NonString}
            \/ pack.reqId = NotNumber
            \/ pack.message.kind \in {"undefined", "null"}
         THEN Closes(CODE_FORMAT, list)
         ELSE LET upd == updateReqId(list, pack.reqId, reqIdCache)
              IN  IF ~upd.ok
                  THEN Closes(CODE_REPEAT, list)
                  ELSE dispatch(pack, upd.list)

\* a watermark that every packet stamps
updateHeartAlways(heart, s, stamped) == [heart EXCEPT ![s] = now]

\* WssSession.updateHeart, called in the $heartick$ branch only
updateHeart(heart, s, stamped) ==
    IF stamped THEN [heart EXCEPT ![s] = now] ELSE heart

\* WssSession.send of session s: the frame handed to its socket, with the
\* number of times it is handed
SessionSend(s, data) ==
    IF socket[s] /\ readyState[s] = "OPEN"
    THEN {[sid |-> s, data |-> data, n |-> 1]}
    ELSE {}

\* WssServer._sendHeartick
sendHeartick(s, reqPack) ==
    SessionSend(s, serialize(Pack(ROUTE_HEARTICK, reqPack.reqId,
                                  reqPack.message), pwd, ConfigBinary))

\* the packet of a push: no reqId, the payload as message
PushPack(route, payload) ==
    Pack(route, NotNumber, [MsgData EXCEPT !.body = payload])

\* pushSession that hands the frame over whatever the state of the socket
pushSessionAnySocket(u, route, payload) ==
    IF u \in DOMAIN sessionMap /\ sessionMap[u] # NoSession
    THEN {[sid |-> sessionMap[u],
           data |-> serialize(PushPack(route, payload), pwd, ConfigBinary),
           n |-> 1]}
    ELSE {}

\* WssServer.pushSession
pushSession(u, route, payload) ==
    IF u \in DOMAIN sessionMap /\ sessionMap[u] # NoSession
    THEN SessionSend(sessionMap[u],
                     serialize(PushPack(route, payload), pwd, ConfigBinary))
    ELSE {}

\* WssServer.pushChannel
pushChannel(g, route, payload) ==
    IF g \in DOMAIN channelMap /\ channelMap[g].present
    THEN UNION {SessionSend(t, serialize(PushPack(route, payload), pwd,
                                         ConfigBinary)) :
                    t \in channelMap[g].sessions}
    ELSE {}

\* WssServer.broadcast: session.send for every key of _sessionMap, so a
\* session is handed the frame once for each key it is stored under
broadcast(route, payload) ==
    LET data == serialize(PushPack(route, payload), pwd, ConfigBinary)
        keys(t) == {k \in DOMAIN sessionMap : sessionMap[k] = t}
    IN  {[sid |-> t, data |-> data, n |-> Cardinality(keys(t))] :
            t \in {x \in SessionIds : /\ keys(x) # {}
                                      /\ SessionSend(x, data) # {}}}

\* the frames the calls of one message hand to sockets
framesOf(s, pack, out) ==
    CASE out.call = "sendHeartick" -> sendHeartick(s, pack)
      [] out.call = "pushSession" ->
            pushSession(Key(out.tid), out.route, pack.message.body)
      [] out.call = "pushChannel" ->
            pushChannel(Key(out.tid), out.route, pack.message.body)
      [] out.call = "broadcast" -> broadcast(out.route, pack.message.body)
      [] OTHER -> {}

\* WssServer.response: a $response$ packet with the reqId of the request and
\* the envelope as message
response(s, reqPack, env) ==
    SessionSend(s, serialize(Pack(ROUTE_RESPONSE, reqPack.reqId, env), pwd,
                             ConfigBinary))

\* the packet _onWebSocketMessage hands to the handler it invokes: the inner
\* route and message with the outer reqId for a remote handler, the packet
\* itself for a router
handlerPack(pack, out) ==
    IF out.call = "remote"
    THEN Pack(pack.message.route, pack.reqId, pack.message.body)
    ELSE pack

\* a 'message' event of session s: frames still arrive between the server's
\* own close call and the socket's close event. The handler invoked, if any,
\* answers with response(session, packet, env) unless env is NoEnv
socketMessage(s, data, env) ==
    /\ s \in Created
    /\ readyState[s] \in {"OPEN", "CLOSING"}
    /\ LET pack == deserialize(data, pwd)
           out == onWebSocketMessage(pack, reqIdList[s])
           cls == IF out.code # 0
                  THEN SessionClose(SockState, s, out.code)
                  ELSE SockState
       IN  /\ reqIdList' = [reqIdList EXCEPT ![s] = out.list]
           /\ lastHeart' = updateHeart(lastHeart, s, out.heart)
           /\ socket' = cls.socket
           /\ readyState' = cls.readyState
           /\ closeCode' = cls.closeCode
           /\ fx' = [closeSid |-> IF out.code # 0 THEN s ELSE 0,
                     closeCode |-> out.code, call |-> out.call,
                     route |-> out.route, tid |-> out.tid, reqId |-> out.reqId,
                     frames |-> IF out.call = "remote" /\ env # NoEnv
                                THEN response(s, handlerPack(pack, out), env)
                                ELSE framesOf(s, pack, out),
                     requests |-> {},
                     message |-> IF out.call = "remote"
                                 THEN handlerPack(pack, out).message
                                 ELSE "",
                     env |-> IF out.call = "remote" THEN env ELSE NoEnv,
                     view |-> NoView]
    /\ UNCHANGED <<cycVars, increment, socketMap, sessionMap, channelMap,
                   uid, channel, routerMap, remoteMap>>

\* a 'message' event of session s of the server
onMessage(s, data, env) ==
    /\ socketMessage(s, data, env)
    /\ UNCHANGED <<cliVars, pwd, reqIdCache, link, now>>

\* a 'message' event whose handler, if any, does not answer
OnMessage(s, data) == onMessage(s, data, NoEnv)

\* WssServer.setRouter
SetRouter(route) ==
    /\ routerMap' = routerMap \cup {route}
    /\ fx' = NoFx
    /\ UNCHANGED <<cliVars, cycVars, increment, socketMap, sessionMap, channelMap, socket,
                   readyState, closeCode, uid, channel, reqIdList, lastHeart,
                   remoteMap, pwd, reqIdCache, link, now>>

\* WssServer.setRemote
SetRemote(route) ==
    /\ remoteMap' = remoteMap \cup {route}
    /\ fx' = NoFx
    /\ UNCHANGED <<cliVars, cycVars, increment, socketMap, sessionMap, channelMap, socket,
                   readyState, closeCode, uid, channel, reqIdList, lastHeart,
                   routerMap, pwd, reqIdCache, link, now>>

\* a call of WssServer.broadcast by the application
Broadcast ==
    /\ fx' = [NoFx EXCEPT !.call = "broadcast", !.route = "evt",
                          !.frames = broadcast("evt", "m")]
    /\ UNCHANGED <<cliVars, cycVars, increment, socketMap, sessionMap,
                   channelMap, socket, readyState, closeCode, uid, channel,
                   pipeVars>>

(* ------------------------------- frames -------------------------------- *)
\* the route the design document names for group pushes
SPEC_INNERGRP == "$innerGRP$"

\* inner envelopes: for a uid or group with an application route, and without
\* a tid with a remote route, signed with this node's secret or another one
Envelopes ==
    {Message("inner", tr[1], tr[2], "w", getMd5(<<tr[2], "w", k>>)) :
        tr \in {<<1, "evt">>, <<NoTid, "rpc">>},
        k \in {Secret, ForgedSecret}}

\* JSON texts a peer may send
Bodies ==
    {[Object(Undefined, NotNumber, MsgUndefined) EXCEPT !.json = j] :
        j \in {"garbage", "null", "scalar"}}
    \cup {Object("echo", i, MsgData) : i \in ReqIds}
    \cup {Object(r, 1, MsgData) : r \in {"nope", ROUTE_HEARTICK, ROUTE_RESPONSE}}
    \cup {Object(r, 1, m) :
            r \in {ROUTE_INNERP2P, ROUTE_INNERGRP, SPEC_INNERGRP,
                   ROUTE_INNERALL, ROUTE_INNERRMC},
            m \in Envelopes}
    \cup {Object(ROUTE_INNERP2P, 1, MsgData)}
    \cup {Object(r, 1, MsgData) : r \in ObjectPrototype}
    \cup {Object(ROUTE_INNERRMC, 1,
                  Message("inner", NoTid, r, "w", getMd5(<<r, "w", Secret>>))) :
            r \in ObjectPrototype}
    \cup {Object(r, 1, MsgData) : r \in {Undefined, NonString}}
    \cup {Object("echo", NotNumber, MsgData)}
    \cup {Object("echo", 1, m) : m \in {MsgUndefined, MsgNull}}

\* frames: every JSON text serialized as this server's peers do (text, under
\* the server's password), and one packet serialized in every other way
Frames ==
    {[key |-> pwd, binary |-> FALSE, body |-> b] : b \in Bodies}
    \cup {[key |-> k, binary |-> b, body |-> Object("echo", 1, MsgData)] :
            k \in {NoPwd, "p", "q"}, b \in BOOLEAN}

\* packets with a string route, a numeric reqId and a non-null message
CodecPacks ==
    {Pack(r, i, msg) : r \in {"echo", ROUTE_INNERP2P}, i \in ReqIds,
                       msg \in {MsgData} \cup Envelopes}

\* passwords of senders: none, the one of this model's server, another one
CodecKeys == {NoPwd, "p", "q"}

\* the frame that is left of a frame cut short: what is decrypted or received
\* is a proper prefix of the JSON text
Truncated(data) == [data EXCEPT !.body.json = "garbage"]

\* a call of WssBridgePackData.serialize
Serialize(pack, binary) ==
    /\ fx' = [NoFx EXCEPT
                !.call = "serialize",
                !.frames = {[sid |-> NoSession,
                             data |-> serialize(pack, pwd, binary), n |-> 1]}]
    /\ UNCHANGED <<cliVars, cycVars, increment, socketMap, sessionMap,
                   channelMap, socket, readyState, closeCode, uid, channel,
                   pipeVars>>

\* a call of WssBridgePackData.deserialize: the packet is kept in the route
\* and reqId of the call, a failure as the call "null"
Deserialize(data) ==
    /\ LET pack == deserialize(data, pwd)
       IN  fx' = [NoFx EXCEPT
                    !.call = IF pack.null THEN "null" ELSE "deserialize",
                    !.route = pack.route,
                    !.reqId = pack.reqId,
                    !.frames = {[sid |-> NoSession, data |-> data, n |-> 1]}]
    /\ UNCHANGED <<cliVars, cycVars, increment, socketMap, sessionMap,
                   channelMap, socket, readyState, closeCode, uid, channel,
                   pipeVars>>

(* ----------------------- WssServer: connections ------------------------ *)
\* WssServer._onWebSocketConnection: a new Session, recorded in _socketMap
onWebSocketConnection ==
    /\ increment <= MaxSessions
    /\ increment' = increment + 1
    /\ socketMap' = socketMap \cup {increment}
    /\ socket' = [socket EXCEPT ![increment] = TRUE]
    /\ readyState' = [readyState EXCEPT ![increment] = "OPEN"]
    /\ lastHeart' = [lastHeart EXCEPT ![increment] = now]
    /\ fx' = NoFx
    /\ UNCHANGED <<cycVars, sessionMap, channelMap, closeCode, uid, channel,
                   reqIdList, routerMap, remoteMap>>

\* a 'connection' event of the server
Accept ==
    /\ onWebSocketConnection
    /\ UNCHANGED <<cliVars, pwd, reqIdCache, link, now>>

\* session.eachChannel(gid => quitChannel(session, gid)) of the close handler
RECURSIVE quitEach(_, _, _)
quitEach(st, s, gs) ==
    IF gs = {} THEN st
    ELSE LET g == CHOOSE x \in gs : TRUE
         IN  quitEach(quitChannel(st, s, g), s, gs \ {g})

\* the registries as a session-close listener finds them for session s
View(s, sockets, chan, us) ==
    [sid |-> s,
     inSockets |-> s \in sockets,
     channel |-> {g \in chan.channel[s] :
                    /\ chan.channelMap[g].present
                    /\ s \in chan.channelMap[g].sessions},
     uid |-> us.uid[s],
     keys |-> {k \in DOMAIN us.sessionMap : us.sessionMap[k] = s}]

\* a close handler that calls the listener after the cleanup
listenerViewAfter(before, after) == after

\* the 'close' handler, the call of _sessionCloseListener: it comes first,
\* so the listener finds the registries as they were before the cleanup
listenerView(before, after) == before

\* the 'close' handler of _onWebSocketConnection, with a session-close
\* listener set
SocketClose(s) ==
    /\ s \in Created
    /\ readyState[s] # "CLOSED"
    /\ readyState' = [readyState EXCEPT ![s] = "CLOSED"]
    /\ LET ch == quitEach(ChanState, s, channel[s])
           ub == unbindUid(UidState, s)
       IN  /\ channel' = ch.channel
           /\ channelMap' = ch.channelMap
           /\ uid' = ub.uid
           /\ sessionMap' = ub.sessionMap
           /\ fx' = [NoFx EXCEPT
                        !.call = "sessionCloseListener",
                        !.view = listenerView(
                                    View(s, socketMap, ChanState, UidState),
                                    View(s, socketMap \ {s}, ch, ub))]
    /\ socketMap' = socketMap \ {s}
    /\ UNCHANGED <<cliVars, cycVars, increment, socket, closeCode, pipeVars>>

\* the 'error' handler of _onWebSocketConnection
SocketError(s) ==
    /\ s \in Created
    /\ readyState[s] # "CLOSED"
    /\ LET cls == SessionClose(SockState, s, CODE_SOCKET)
       IN  /\ socket' = cls.socket
           /\ readyState' = cls.readyState
           /\ closeCode' = cls.closeCode
    /\ fx' = CloseFx(s, CODE_SOCKET)
    /\ UNCHANGED <<cliVars, cycVars, increment, socketMap, sessionMap, channelMap, uid, channel,
                   pipeVars>>

(* ----------------------- WssServer: supervisor ------------------------- *)
\* WssServer.start: the connection handler and the cycle ticker
Start ==
    /\ cycleTicker = NoTicker
    /\ cycleTicker' = now + Cycle
    /\ fx' = NoFx
    /\ UNCHANGED <<cliVars, totalSocket, totalSession, increment, socketMap,
                   sessionMap, channelMap, socket, readyState, closeCode, uid,
                   channel, pipeVars>>

\* WssSession.isExpired that counts the deadline itself as expired
isExpiredInclusive(heart, timeout) == now >= heart + timeout

\* WssSession.isExpired
isExpired(heart, timeout) == now > heart + timeout

\* session.close(code) on every session of a set
RECURSIVE closeEach(_, _, _)
closeEach(st, ss, code) ==
    IF ss = {} THEN st
    ELSE LET s == CHOOSE x \in ss : TRUE
         IN  closeEach(SessionClose(st, s, code), ss \ {s}, code)

\* WssServer._onServerLifeCycle, run by the interval when it is due
OnServerLifeCycle ==
    /\ cycleTicker # NoTicker
    /\ now = cycleTicker
    /\ LET gone == {s \in socketMap : isExpired(lastHeart[s], ServerTimeout)}
           live == socketMap \ gone
           cls == closeEach(SockState, gone, CODE_TIMEOUT)
       IN  /\ socket' = cls.socket
           /\ readyState' = cls.readyState
           /\ closeCode' = cls.closeCode
           /\ totalSocket' = Cardinality(live)
           /\ totalSession' = Cardinality({s \in live : isBinded(uid[s])})
    /\ cycleTicker' = cycleTicker + Cycle
    /\ fx' = [NoFx EXCEPT !.call = "lifeCycle"]
    /\ UNCHANGED <<cliVars, increment, socketMap, sessionMap, channelMap, uid,
                   channel, pipeVars>>

\* frames of a supervised connection: heartbeats with two payloads, and a
\* request for a route without a handler
HeartFrames ==
    {[key |-> pwd, binary |-> FALSE, body |-> b] :
        b \in {Object(ROUTE_HEARTICK, i, MsgData) : i \in ReqIds}
               \cup {Object(ROUTE_HEARTICK, 1, [MsgData EXCEPT !.body = "t"]),
                     Object("nope", 1, MsgData)}}

(* ---------------------------- Bridge Client ---------------------------- *)
\* reqIds of the requests of one run (WssBridge._reqIdInc starts at 0)
CReqIds == 0..(MaxRequests - 1)
\* absent entry of WssBridge._requests
NoRequest == -1
\* no heartbeat is in flight on the open connection
NoHeart == -1
\* Response codes: success, the code of the timeout sweep, a failure code a
\* server answers with, and the code of a response that has no message
CODE_OK == 200
CODE_GATEWAY == 504
CODE_FAIL == 500
NoCode == 0

\* WssBridgePackData close codes of the client
CODE_RETRY == 4101
CODE_CLOSE == 4102
CODE_ERROR == 4103
CODE_CALL == 4104

\* what the last step of the client did: the operation, the message given to
\* the error callback, the frame read, the lifecycle callback fired (open,
\* close, error, retry) with the count given to the retry callback, whether
\* a frame was handed to the socket, the code given to socket.close, and the
\* callMessage calls made on listeners, in order, with the message passed
NoCfx == [op |-> "none", onerror |-> "none", route |-> "", reqId |-> NoRequest,
          event |-> "none", count |-> 0, wire |-> FALSE, closed |-> NoCode,
          invoked |-> <<>>]
Cfx(op) == [NoCfx EXCEPT !.op = op]

\* WssBridge.isConnected
isConnected(sock) == sock = "OPEN"

\* WssBridge.safeClose: close() on the held socket and drop the reference;
\* the count of dropped sockets that have yet to deliver their close event
safeClose(sock, n) == IF sock # "null" THEN n + 1 ELSE n
\* WssBridge.safeClose: the code given to close() of the held socket
safeCloseCode(sock, code) == IF sock # "null" THEN code ELSE NoCode

\* WssBridge.safeOpen that opens a socket on a disconnected client as well
safeOpenRevive(exp, sock, n) == <<"CONNECTING", safeClose(sock, n)>>
\* WssBridge.safeOpen: the new <<_socket, dropped sockets>>
safeOpen(exp, sock, n) ==
    <<IF exp THEN "null" ELSE "CONNECTING", safeClose(sock, n)>>

\* WssBridge.sendPackData: TRUE when the frame is handed to the socket
sendPackDataUnchecked(exp, sock) == ~exp /\ sock # "null"
sendPackData(exp, sock) == ~exp /\ isConnected(sock)

\* WssBridge.onTimerTick, the scan: reqIds whose age at `time` exceeds the
\* timeout
sweepInclusive(reqs, time) ==
    {r \in CReqIds : reqs[r] # NoRequest /\ time - reqs[r] >= Timeout}
sweep(reqs, time) ==
    {r \in CReqIds : reqs[r] # NoRequest /\ time - reqs[r] > Timeout}

\* WssBridge.readPackData, $response$ branch: delete this._requests[reqId]
respondKeep(reqs, r) == reqs
respond(reqs, r) == [reqs EXCEPT ![r] = NoRequest]

\* the connection is gone: nothing sent on it is answered any more
Dropped == inflight' = {} /\ hbTime' = NoHeart

\* WssBridge.connect: install the callbacks, safeOpen, start the timer
connect ==
    /\ cSocket' = safeOpen(expired, cSocket, stale)[1]
    /\ stale' = safeOpen(expired, cSocket, stale)[2]
    /\ timer' = TRUE
    /\ cfx' = [NoCfx EXCEPT !.closed = safeCloseCode(cSocket, CODE_RETRY)]
    /\ UNCHANGED <<timerInc, reqIdInc, netDelay, retryCnt, requests, paused,
                   expired, sent, inflight, hbTime, callSuccess, callError,
                   late, listeners, offline>>

\* a call of connect on a client whose timer is not running
Connect ==
    /\ ~timer
    /\ connect
    /\ UNCHANGED <<srvVars, pwd, reqIdCache, link, now>>

\* WssBridge.onSocketOpen, the retry count: left as it is
onSocketOpenKeepCnt(cnt) == cnt
\* WssBridge.onSocketOpen, the retry count: this._retryCnt = 0
onSocketOpenRetryCnt(cnt) == 0

\* an onSocketOpen that sends the pending requests again on the new socket
onSocketOpenResend(reqs) == \E r \in CReqIds : reqs[r] # NoRequest
\* WssBridge.onSocketOpen, what it hands to the new socket: nothing
onSocketOpenWire(reqs) == FALSE

\* the open event of the held socket: WssBridge.onSocketOpen
OnSocketOpen ==
    /\ cSocket = "CONNECTING"
    /\ cSocket' = "OPEN"
    /\ retryCnt' = onSocketOpenRetryCnt(retryCnt)
    /\ cfx' = [NoCfx EXCEPT !.event = "open",
                            !.wire = onSocketOpenWire(requests)]
    /\ UNCHANGED <<srvVars, pwd, reqIdCache, link, now, stale, timer, timerInc, reqIdInc,
                   netDelay, requests, paused, expired, sent, inflight,
                   hbTime, callSuccess, callError, late, listeners, offline>>

\* WssBridge.onSocketClose on the close event of the held socket
onSocketClose ==
    /\ cSocket \in {"CONNECTING", "OPEN"}
    /\ ~expired
    /\ cSocket' = "null"
    /\ Dropped
    /\ cfx' = [NoCfx EXCEPT !.event = "close", !.closed = CODE_CLOSE]
    /\ UNCHANGED <<stale, timer, timerInc, reqIdInc, netDelay, retryCnt,
                   requests, paused, expired, sent, callSuccess, callError,
                   late, listeners, offline>>

\* the close event of the held socket (closed by the peer, or a failed
\* connect)
OnSocketClose ==
    /\ onSocketClose
    /\ UNCHANGED <<srvVars, pwd, reqIdCache, link, now>>

\* the error event of the held socket: WssBridge.onSocketError; the socket's
\* close event follows later
OnSocketError ==
    /\ cSocket \in {"CONNECTING", "OPEN"}
    /\ ~expired
    /\ cSocket' = "null"
    /\ stale' = safeClose(cSocket, stale)
    /\ Dropped
    /\ cfx' = [Cfx("error") EXCEPT !.onerror = "Unknow Error",
                                   !.event = "error",
                                   !.closed = CODE_ERROR]
    /\ UNCHANGED <<srvVars, pwd, reqIdCache, link, now, timer, timerInc, reqIdInc, netDelay,
                   retryCnt, requests, paused, expired, sent, callSuccess,
                   callError, late, listeners, offline>>

\* the close event of a socket dropped earlier: its onclose still points at
\* WssBridge.onSocketClose, which closes whatever socket is held now
OnStaleClose ==
    /\ stale > 0
    /\ cSocket' = "null"
    /\ stale' = IF expired THEN stale - 1 ELSE safeClose(cSocket, stale) - 1
    /\ Dropped
    /\ cfx' = IF expired THEN Cfx("expired")
              ELSE [NoCfx EXCEPT
                        !.event = "close",
                        !.closed = safeCloseCode(cSocket, CODE_CLOSE)]
    /\ UNCHANGED <<srvVars, pwd, reqIdCache, link, now, timer, timerInc, reqIdInc, netDelay,
                   retryCnt, requests, paused, expired, sent, callSuccess,
                   callError, late, listeners, offline>>

\* the error event of a socket dropped earlier (its close event follows):
\* WssBridge.onSocketError
OnStaleError ==
    /\ stale > 0
    /\ cSocket' = "null"
    /\ stale' = IF expired THEN stale ELSE safeClose(cSocket, stale)
    /\ Dropped
    /\ cfx' = IF expired THEN Cfx("expired")
              ELSE [Cfx("error") EXCEPT
                        !.onerror = "Unknow Error",
                        !.event = "error",
                        !.closed = safeCloseCode(cSocket, CODE_ERROR)]
    /\ UNCHANGED <<srvVars, pwd, reqIdCache, link, now, timer, timerInc, reqIdInc, netDelay,
                   retryCnt, requests, paused, expired, sent, callSuccess,
                   callError, late, listeners, offline>>

\* the counter after a tick that leaves it alone when it sends a heartbeat
heartReqIdIncKeep(inc, beat) == inc

\* WssBridge.onTimerTick, the counter: this._reqIdInc++ in the heartbeat
\* branch
heartReqIdInc(inc, beat) == IF beat THEN inc + 1 ELSE inc

\* WssBridge.onTimerTick: the timeout sweep, then the heartbeat or the
\* reconnect attempt
onTimerTick ==
    /\ timer
    /\ timerInc < MaxTicks
    /\ LET inc == timerInc + 1
           list == sweep(requests, now)
           beat == isConnected(cSocket) /\ inc % Heartick = 0
           retry == ~isConnected(cSocket) /\ inc % Conntick = 0 /\ ~paused
           opened == safeOpen(expired, cSocket, stale)
       IN /\ timerInc' = inc
          /\ callError' = [r \in CReqIds |->
                IF r \in list THEN Append(callError[r], CODE_GATEWAY)
                ELSE callError[r]]
          /\ requests' = [r \in CReqIds |->
                IF r \in list THEN NoRequest ELSE requests[r]]
          /\ reqIdInc' = heartReqIdInc(reqIdInc, beat)
          /\ hbTime' = IF beat /\ sendPackData(expired, cSocket) THEN now
                       ELSE IF retry THEN NoHeart ELSE hbTime
          /\ retryCnt' = IF retry THEN retryCnt + 1 ELSE retryCnt
          /\ cSocket' = IF retry THEN opened[1] ELSE cSocket
          /\ stale' = IF retry THEN opened[2] ELSE stale
          /\ inflight' = IF retry THEN {} ELSE inflight
          /\ cfx' = [NoCfx EXCEPT
                        !.event = IF retry THEN "retry" ELSE "none",
                        !.count = IF retry THEN retryCnt + 1 ELSE 0,
                        !.reqId = IF beat THEN reqIdInc ELSE NoRequest,
                        !.wire = beat /\ sendPackData(expired, cSocket),
                        !.closed = IF retry
                                   THEN safeCloseCode(cSocket, CODE_RETRY)
                                   ELSE NoCode]
    /\ UNCHANGED <<timer, netDelay, paused, expired, sent, callSuccess, late,
                   listeners, offline>>

\* a tick of the interval timer of the client
Tick ==
    /\ onTimerTick
    /\ UNCHANGED <<srvVars, pwd, reqIdCache, link, now>>

\* WssBridge.request with (cb) or without callbacks
request(cb) ==
    /\ reqIdInc < MaxRequests
    /\ LET reqId == reqIdInc
           wired == sendPackData(expired, cSocket)
       IN /\ reqIdInc' = reqId + 1
          /\ requests' = IF cb THEN [requests EXCEPT ![reqId] = now]
                         ELSE requests
          /\ sent' = IF wired THEN sent \cup {reqId} ELSE sent
          /\ inflight' = IF wired THEN inflight \cup {reqId} ELSE inflight
          /\ offline' = IF cb /\ ~isConnected(cSocket)
                        THEN offline \cup {reqId} ELSE offline
          /\ cfx' = [Cfx("request") EXCEPT !.reqId = reqId, !.wire = wired]
    /\ UNCHANGED <<cSocket, stale, timer, timerInc, netDelay, retryCnt,
                   paused, expired, hbTime, callSuccess, callError, late,
                   listeners>>

\* a call of request by the application
Request(cb) ==
    /\ request(cb)
    /\ UNCHANGED <<srvVars, pwd, reqIdCache, link, now>>

\* the `message` of a frame a server sends: a Response {code, data}, the
\* echoed timestamp of a heartbeat, null, or pushed data
CMsg(kind, code, time) == [kind |-> kind, code |-> code, time |-> time]
CObject(json, route, reqId, message) ==
    [json |-> json, route |-> route, reqId |-> reqId, message |-> message]

\* JSON texts the server of the open connection may send: answers to the
\* requests it received, the echo of the heartbeat, a push, and garbage
ClientBodies ==
    {CObject("garbage", Undefined, NotNumber, CMsg("undefined", NoCode, 0))}
    \cup {CObject("object", ROUTE_RESPONSE, r, CMsg("resp", c, 0)) :
            r \in inflight, c \in {CODE_OK, CODE_FAIL}}
    \cup {CObject("object", ROUTE_RESPONSE, r, CMsg("null", NoCode, 0)) :
            r \in inflight}
    \cup {CObject("object", ROUTE_HEARTICK, NotNumber, CMsg("time", NoCode, t)) :
            t \in {hbTime} \ {NoHeart}}
    \cup {CObject("object", "evt", NotNumber, CMsg("data", NoCode, 0))}

ClientFrames ==
    {[key |-> pwd, binary |-> FALSE, body |-> b] : b \in ClientBodies}
    \cup {[key |-> "q", binary |-> FALSE,
           body |-> CObject("object", "evt", NotNumber, CMsg("data", NoCode, 0))]}

\* routes listeners are registered for, and the key under which the plain
\* object _listeners stores the listeners of a route: an absent route reads
\* the property named "undefined"
ListenRoutes == {"evt", "msg"}
ListenerKeys == ListenRoutes \cup {"undefined"}
listenerKey(route) == IF route = Undefined THEN "undefined" ELSE route

\* callback functions given to addListener, and no function
Callbacks == {"f", "g"}
NoCallback == "none"

\* WssBridgeListener
Listener(once, onmessage) == [once |-> once, onmessage |-> onmessage]

\* this._listeners[route]: the empty sequence when the route has no entry
listenersOf(ls, route) ==
    IF listenerKey(route) \in DOMAIN ls THEN ls[listenerKey(route)] ELSE <<>>

\* WssBridge.addListener
addListener(ls, route, once, onmessage) ==
    [ls EXCEPT ![listenerKey(route)] = Append(@, Listener(once, onmessage))]

\* WssBridge.removeListener: every listener of the route when no function is
\* given, else every listener of the route with that function
removeListener(ls, route, onmessage) ==
    IF listenersOf(ls, route) = <<>>
    THEN ls
    ELSE IF onmessage = NoCallback
    THEN [ls EXCEPT ![listenerKey(route)] = <<>>]
    ELSE [ls EXCEPT ![listenerKey(route)] =
                SelectSeq(@, LAMBDA x : x.onmessage # onmessage)]

\* the second loop of triggerEvent: removeListener for each listener of
\* oncelist
RECURSIVE removeEach(_, _, _)
removeEach(ls, route, oncelist) ==
    IF oncelist = <<>>
    THEN ls
    ELSE removeEach(removeListener(ls, route, Head(oncelist).onmessage),
                    route, Tail(oncelist))

\* triggerEvent that removes only the first listener flagged once
triggerEventFirstOnce(ls, route) ==
    LET oncelist == SelectSeq(listenersOf(ls, route), LAMBDA x : x.once)
    IN  IF oncelist = <<>> THEN ls
        ELSE removeEach(ls, route, <<Head(oncelist)>>)

\* WssBridge.triggerEvent, the listeners it leaves registered
triggerEvent(ls, route) ==
    removeEach(ls, route, SelectSeq(listenersOf(ls, route), LAMBDA x : x.once))

\* WssBridge.triggerEvent, its callMessage calls: one for every listener of
\* the route, in order, with the message of the packet
callMessages(ls, pack) ==
    LET l == listenersOf(ls, pack.route)
    IN  [i \in 1..Len(l) |-> [listener |-> l[i], message |-> pack.message]]

\* WssBridge.readPackData
readPackData(data) ==
    /\ LET pack == deserialize(data, pwd)
           push == /\ ~pack.null
                   /\ pack.route \notin {ROUTE_HEARTICK, ROUTE_RESPONSE}
           reqId == pack.reqId
           beat == ~pack.null /\ pack.route = ROUTE_HEARTICK
           known == /\ ~pack.null
                    /\ pack.route = ROUTE_RESPONSE
                    /\ reqId \in CReqIds
                    /\ requests[reqId] # NoRequest
           code == IF pack.message.kind = "resp" THEN pack.message.code
                   ELSE NoCode
       IN /\ netDelay' = IF beat THEN now - pack.message.time
                         ELSE IF known THEN now - requests[reqId]
                         ELSE netDelay
          /\ callSuccess' = IF known /\ code = CODE_OK
                            THEN [callSuccess EXCEPT ![reqId] = @ + 1]
                            ELSE callSuccess
          /\ callError' = IF known /\ code # CODE_OK
                          THEN [callError EXCEPT ![reqId] = Append(@, code)]
                          ELSE callError
          /\ requests' = IF known THEN respond(requests, reqId) ELSE requests
          /\ hbTime' = IF beat THEN NoHeart ELSE hbTime
          /\ listeners' = IF push THEN triggerEvent(listeners, pack.route)
                          ELSE listeners
          /\ cfx' = IF pack.null
                    THEN [Cfx("message") EXCEPT !.onerror = "Deserialize Error"]
                    ELSE [Cfx("message") EXCEPT
                            !.route = pack.route,
                            !.reqId = reqId,
                            !.invoked = IF push
                                        THEN callMessages(listeners, pack)
                                        ELSE <<>>]
    /\ UNCHANGED <<srvVars, pwd, reqIdCache, link, now, cSocket, stale, timer, timerInc,
                   reqIdInc, retryCnt, paused, expired, sent, inflight, late,
                   offline>>

\* WssBridge.onSocketMessage
onSocketMessage(data) ==
    IF expired
    THEN /\ cfx' = Cfx("expired")
         /\ UNCHANGED <<srvVars, pwd, reqIdCache, link, now, cSocket, stale, timer, timerInc,
                        reqIdInc, netDelay, retryCnt, requests, paused,
                        expired, sent, inflight, hbTime, callSuccess,
                        callError, late, listeners, offline>>
    ELSE readPackData(data)

\* the message event of the held socket
OnSocketMessage(data) ==
    /\ cSocket = "OPEN"
    /\ onSocketMessage(data)

\* the message event of a socket dropped earlier, before its close event
OnStaleMessage(data) ==
    /\ stale > 0
    /\ onSocketMessage(data)

\* WssBridge.disconnect
disconnect ==
    /\ expired' = TRUE
    /\ timer' = FALSE
    /\ cSocket' = "null"
    /\ stale' = safeClose(cSocket, stale)
    /\ Dropped
    /\ cfx' = [Cfx("disconnect") EXCEPT
                 !.closed = safeCloseCode(cSocket, CODE_CALL)]
    /\ UNCHANGED <<timerInc, reqIdInc, netDelay, retryCnt, requests, paused,
                   sent, callSuccess, callError, late, listeners, offline>>

\* a call of disconnect that changes something
Disconnect ==
    /\ ~expired \/ timer
    /\ disconnect
    /\ UNCHANGED <<srvVars, pwd, reqIdCache, link, now>>

\* calls of addListener and removeListener by the application
AddListener(route, once, onmessage) ==
    /\ Len(listenersOf(listeners, route)) < MaxListeners
    /\ listeners' = addListener(listeners, route, once, onmessage)
    /\ cfx' = Cfx("addListener")
    /\ UNCHANGED <<srvVars, pwd, reqIdCache, link, now, cSocket, stale, timer, timerInc,
                   reqIdInc, netDelay, retryCnt, requests, paused, expired,
                   sent, inflight, hbTime, callSuccess, callError, late,
                   offline>>

RemoveListener(route, onmessage) ==
    /\ listeners' = removeListener(listeners, route, onmessage)
    /\ cfx' = Cfx("removeListener")
    /\ UNCHANGED <<srvVars, pwd, reqIdCache, link, now, cSocket, stale, timer, timerInc,
                   reqIdInc, netDelay, retryCnt, requests, paused, expired,
                   sent, inflight, hbTime, callSuccess, callError, late,
                   offline>>

\* WssBridge.pauseReconnect and resumeReconnect
PauseReconnect ==
    /\ paused' = TRUE
    /\ cfx' = NoCfx
    /\ UNCHANGED <<srvVars, pwd, reqIdCache, link, now, cSocket, stale, timer, timerInc,
                   reqIdInc, netDelay, retryCnt, requests, expired, sent,
                   inflight, hbTime, callSuccess, callError, late, listeners,
                   offline>>

ResumeReconnect ==
    /\ paused' = FALSE
    /\ cfx' = NoCfx
    /\ UNCHANGED <<srvVars, pwd, reqIdCache, link, now, cSocket, stale, timer, timerInc,
                   reqIdInc, netDelay, retryCnt, requests, expired, sent,
                   inflight, hbTime, callSuccess, callError, late, listeners,
                   offline>>

\* Date.now() moves on by one unit, up to `max'; a supervisor cycle that is
\* due runs before the clock passes it
Elapse(max) ==
    /\ now < max
    /\ cycleTicker # NoTicker => now < cycleTicker
    /\ now' = now + 1
    /\ late' = late \cup {r \in CReqIds : /\ requests[r] # NoRequest
                                          /\ now + 1 - requests[r] > Timeout}
    /\ cfx' = NoCfx
    /\ UNCHANGED <<srvVars, pwd, reqIdCache, link, cSocket, stale, timer, timerInc, reqIdInc,
                   netDelay, retryCnt, requests, paused, expired, sent,
                   inflight, hbTime, callSuccess, callError, offline,
                   listeners>>

Advance == Elapse(MaxTime)

(* ------------------------- WssServer: cluster -------------------------- *)
\* state of the Message Server that start() and close() leave alone
regVars == <<increment, socketMap, sessionMap, channelMap, socket, readyState,
             closeCode, uid, channel, reqIdList, lastHeart, routerMap,
             remoteMap, totalSocket, totalSession>>

\* WssServer.start of a server linked to peers: the cycle ticker is set and
\* _connectForCluster connects the client of every peer
StartLinked ==
    /\ cycleTicker = NoTicker
    /\ ~timer
    /\ cycleTicker' = now + Cycle
    /\ fx' = NoFx
    /\ connect
    /\ UNCHANGED <<regVars, pwd, reqIdCache, link, now>>

\* WssServer.close of a server linked to peers: the cycle ticker is cleared
\* and the client of every peer is disconnected
Close ==
    /\ cycleTicker # NoTicker \/ ~expired
    /\ cycleTicker' = NoTicker
    /\ fx' = [NoFx EXCEPT !.call = "close"]
    /\ disconnect
    /\ UNCHANGED <<regVars, pwd, reqIdCache, link, now>>

\* the peers of the one node group of _clusterMap; the client (rmc) of peer 1
\* is the Bridge Client of this model, the clients of the other peers are
\* known by the requests they are asked to issue
Peers == 1..MaxPeers
\* no dispatchCallback is given
NoDispatch == 0
\* values of uuid()
Words == {"w1", "w2"}

\* WssServer._generateInnerData: the tid is set when it is truthy
generateInnerData(tid, route, word) ==
    Message("data", IF tid # NoTid /\ tid # 0 THEN tid ELSE NoTid, route, word,
            getMd5(<<route, word, Secret>>))

\* the peers a push is issued to: cluster[dispatchCallback(...)], or every
\* peer of the group
targets(d) == IF d # NoDispatch THEN {d} ELSE Peers

\* the peer a remote call is issued to: cluster[dispatchCallback(...)], or
\* the peer at the random index
target(d, rnd) == IF d # NoDispatch THEN {d} ELSE {rnd}

\* handle.rmc.request(route, innerData[, resolve, resolve]) on each of the
\* peers ps
rmcRequest(call, ps, route, innerData, cb) ==
    /\ fx' = [NoFx EXCEPT
                !.call = call,
                !.requests = {[peer |-> p, route |-> route, env |-> innerData,
                               cb |-> cb, n |-> 1] : p \in ps}]
    /\ IF 1 \in ps THEN request(cb) ELSE UNCHANGED cliVars
    /\ UNCHANGED <<regVars, cycleTicker, pwd, reqIdCache, link, now>>

\* WssServer.pushClusterSession / pushClusterChannel / clusterBroadcast
PushClusterSession(u, d, word) ==
    rmcRequest("pushClusterSession", targets(d), ROUTE_INNERP2P,
               generateInnerData(u, "evt", word), FALSE)

PushClusterChannel(g, d, word) ==
    rmcRequest("pushClusterChannel", targets(d), ROUTE_INNERGRP,
               generateInnerData(g, "evt", word), FALSE)

ClusterBroadcast(d, word) ==
    rmcRequest("clusterBroadcast", targets(d), ROUTE_INNERALL,
               generateInnerData(NoTid, "evt", word), FALSE)

\* WssServer.callRemote / callRemoteForResult: the request of the latter
\* carries the two callbacks that resolve the promise
CallRemote(d, rnd, word) ==
    rmcRequest("callRemote", target(d, rnd), ROUTE_INNERRMC,
               generateInnerData(NoTid, "evt", word), FALSE)

CallRemoteForResult(d, rnd, word) ==
    rmcRequest("callRemoteForResult", target(d, rnd), ROUTE_INNERRMC,
               generateInnerData(NoTid, "evt", word), TRUE)

\* envelopes a remote handler answers with: WssBridgeResponse {code, data}
Envs == {CMsg("resp", c, 0) : c \in {CODE_OK, CODE_FAIL}}

\* the frames of the remote calls this node's client has on the wire, as
\* they arrive at the peer
RemoteFrames ==
    {serialize(Pack(ROUTE_INNERRMC, r, generateInnerData(NoTid, "evt", w)),
               pwd, ConfigBinary) : r \in inflight, w \in Words}

\* a frame of a remote call arrives on session s of the peer, whose handler
\* answers with response(session, packet, env)
OnRemoteCall(s, env) ==
    \E f \in RemoteFrames : onMessage(s, f, env)

\* a frame the peer handed to the socket of the caller's session arrives at
\* the caller's client
OnRemoteAnswer ==
    \E x \in fx.frames : OnSocketMessage(x.data)

(* ---------------------------- specification ---------------------------- *)
InitState ==
    /\ increment = 1
    /\ socketMap = {}
    /\ sessionMap = [u \in UIDs |-> NoSession]
    /\ channelMap = [g \in Gids |-> NoChannel]
    /\ socket = [s \in SessionIds |-> FALSE]
    /\ readyState = [s \in SessionIds |-> "NONE"]
    /\ closeCode = [s \in SessionIds |-> 0]
    /\ uid = [s \in SessionIds |-> NoUid]
    /\ channel = [s \in SessionIds |-> {}]
    /\ reqIdList = [s \in SessionIds |-> <<>>]
    /\ lastHeart = [s \in SessionIds |-> 0]
    /\ routerMap = {}
    /\ remoteMap = {}
    /\ now = 0
    /\ fx = NoFx
    /\ cycleTicker = NoTicker
    /\ totalSocket = 0
    /\ totalSession = 0
    /\ cSocket = "null"
    /\ stale = 0
    /\ timer = FALSE
    /\ timerInc = 0
    /\ reqIdInc = 0
    /\ netDelay = 0
    /\ retryCnt = 0
    /\ requests = [r \in CReqIds |-> NoRequest]
    /\ paused = FALSE
    /\ expired = FALSE
    /\ sent = {}
    /\ inflight = {}
    /\ hbTime = NoHeart
    /\ callSuccess = [r \in CReqIds |-> 0]
    /\ callError = [r \in CReqIds |-> <<>>]
    /\ late = {}
    /\ offline = {}
    /\ listeners = [k \in ListenerKeys |-> <<>>]
    /\ cfx = NoCfx
    /\ link = NoLink

\* a server without a password, one with or without, and a client with one
Init == InitState /\ pwd = NoPwd /\ reqIdCache = ReqIdCache
InitMessage == InitState /\ pwd \in {NoPwd, "p"} /\ reqIdCache = ReqIdCache
InitClient == InitState /\ pwd = "p" /\ reqIdCache = ReqIdCache
\* a server with any capacity of the ring from 1 up
InitRing == InitState /\ pwd = NoPwd /\ reqIdCache \in 1..ReqIdCache

\* the UID index machine: connections, bindUid / unbindUid, close and error
\* events
Next ==
    \/ Accept
    \/ \E s \in SessionIds, u \in UIDs, c \in BOOLEAN : BindUid(s, u, c)
    \/ \E s \in SessionIds : UnbindUid(s)
    \/ \E s \in SessionIds : SocketClose(s)
    \/ \E s \in SessionIds : SocketError(s)
    \/ Broadcast

Spec == Init /\ [][Next]_vars

\* the channel machine: connections, joinChannel / quitChannel /
\* deleteChannel, close events
NextChannel ==
    \/ Accept
    \/ \E s \in SessionIds, g \in Gids : JoinChannel(s, g)
    \/ \E s \in SessionIds, g \in Gids : QuitChannel(s, g)
    \/ \E g \in Gids : DeleteChannel(g)
    \/ \E s \in SessionIds : SocketClose(s)
    \/ \E s \in SessionIds : SocketError(s)

SpecChannel == Init /\ [][NextChannel]_vars

\* the receive pipeline of one connection: its frames, its close event, and
\* the handler registrations
NextMessage ==
    \/ Accept /\ increment = 1
    \/ \E r \in {"echo"} : SetRouter(r)
    \/ \E r \in {"rpc"} : SetRemote(r)
    \/ \E s \in SessionIds, f \in Frames : OnMessage(s, f)
    \/ \E s \in SessionIds : SocketClose(s)

SpecMessage == InitMessage /\ [][NextMessage]_vars

\* the codec, with and without a password: packets are serialized in both
\* binary modes, and what senders with any password serialized is
\* deserialized, whole or cut short
CodecFrames ==
    {serialize(pk, k, b) : pk \in CodecPacks, k \in CodecKeys, b \in BOOLEAN}

NextCodec ==
    \/ \E pk \in CodecPacks, b \in BOOLEAN : Serialize(pk, b)
    \/ \E d \in CodecFrames : Deserialize(d)
    \/ \E d \in CodecFrames : Deserialize(Truncated(d))

SpecCodec == InitMessage /\ [][NextCodec]_vars

\* a remote call from end to end: this node's client is connected to a peer
\* that runs the same server; the peer accepts that one connection, has a remote
\* handler, receives the call and other frames, and its answer arrives at
\* the client
NextRpc ==
    \/ StartLinked /\ now = 0
    \/ OnSocketOpen
    \/ Accept /\ increment = 1
    \/ SetRemote("evt")
    \/ \E word \in Words : CallRemoteForResult(1, 1, word)
    \/ \E s \in SessionIds, env \in Envs : OnRemoteCall(s, env)
    \/ \E s \in SessionIds :
            OnMessage(s, serialize(Pack("nope", MaxReqId, MsgData), pwd,
                                   ConfigBinary))
    \/ OnRemoteAnswer
    \/ \E s \in SessionIds : SocketClose(s)

SpecRpc == InitClient /\ [][NextRpc]_vars

\* the recent-request ring under every capacity: one connection and
\* well-formed frames with every reqId, new and repeated
RingFrames ==
    {serialize(Pack("echo", i, MsgData), pwd, ConfigBinary) : i \in ReqIds}

NextRing ==
    \/ Accept /\ increment = 1
    \/ SetRouter("echo")
    \/ \E s \in SessionIds, f \in RingFrames : OnMessage(s, f)
    \/ \E s \in SessionIds : SocketClose(s)

SpecRing == InitRing /\ [][NextRing]_vars

\* the envelope a sending node generated under the word w: a push of "m" to
\* group 1 on route "evt"
Signed(w) == generateInnerData(1, "evt", w)

\* envelopes with a word and sign of the sending node whose tid or message
\* is not the one the node signed
Altered ==
    {[Signed(w) EXCEPT !.tid = g] : w \in Words, g \in Gids \ {1}}
    \cup {[Signed(w) EXCEPT !.body = "x"] : w \in Words}

\* group pushes of a peer as they arrive: the envelopes the sending node
\* generated, and altered ones
SignFrames ==
    {serialize(Pack(ROUTE_INNERGRP, i, e), pwd, ConfigBinary) :
        i \in ReqIds, e \in {Signed(w) : w \in Words} \cup Altered}

\* a node that receives signed group pushes: the connection of the peer,
\* a member of each group, and the frames
NextSign ==
    \/ Accept
    \/ \E g \in Gids : JoinChannel(MaxSessions, g)
    \/ \E f \in SignFrames : OnMessage(1, f)
    \/ SocketClose(1)

SpecSign == InitMessage /\ [][NextSign]_vars

\* one signed envelope, a push to uid 1 (one word / sign pair), in packets
\* with every outer reqId
ReplayFrames ==
    {serialize(Pack(ROUTE_INNERP2P, i, generateInnerData(1, "evt", "w1")),
               pwd, ConfigBinary) : i \in ReqIds}

\* a node to which one signed envelope is sent again and again, on one
\* connection and, when that one is closed or not, on a second one
NextReplay ==
    \/ Accept /\ increment <= 2
    \/ BindUid(2, 1, FALSE)
    \/ \E s \in {1, 2}, f \in ReplayFrames : OnMessage(s, f)
    \/ SocketClose(1)

SpecReplay == InitMessage /\ [][NextReplay]_vars

\* the close handler with every registry in use: connections, bindUid with
\* and without closing the session displaced, joinChannel, close events
NextClose ==
    \/ Accept
    \/ \E s \in SessionIds, u \in UIDs, c \in BOOLEAN : BindUid(s, u, c)
    \/ JoinChannel(1, 1)
    \/ \E s \in SessionIds : SocketClose(s)

SpecClose == Init /\ [][NextClose]_vars

\* verified pushes to every uid as they arrive from a peer
P2PFrames ==
    {serialize(Pack(ROUTE_INNERP2P, i,
                    Message("inner", u, "evt", "w",
                            getMd5(<<"evt", "w", Secret>>))),
               pwd, ConfigBinary) : i \in ReqIds, u \in UIDs}

\* a node that receives pushes for uids from a peer on session 1: the local
\* session 2 is bound and unbound, closed by the server and by its peer
NextP2P ==
    \/ Accept /\ increment <= 2
    \/ \E u \in UIDs : BindUid(2, u, FALSE)
    \/ UnbindUid(2)
    \/ \E f \in P2PFrames : OnMessage(1, f)
    \/ SocketError(2)
    \/ SocketClose(2)

SpecP2P == InitMessage /\ [][NextP2P]_vars

\* a supervised server: one connection, its heartbeats, the clock and the
\* cycle
NextHeart ==
    \/ Start /\ now = 0
    \/ Accept /\ cycleTicker # NoTicker /\ increment = 1
    \/ \E r \in {ROUTE_HEARTICK} : SetRouter(r)
    \/ \E s \in SessionIds, f \in HeartFrames : OnMessage(s, f)
    \/ \E s \in SessionIds : SocketClose(s)
    \/ Elapse(MaxHeartTime)
    \/ OnServerLifeCycle

SpecHeart == Init /\ [][NextHeart]_vars

\* frames of a connection that sends requests for the route "echo" with
\* every reqId and, with reqId 1, a heartbeat and a verified push of a peer
LiveFrames ==
    {serialize(Pack("echo", i, MsgData), pwd, ConfigBinary) : i \in ReqIds}
    \cup {serialize(Pack(ROUTE_HEARTICK, 1, MsgData), pwd, ConfigBinary)}
    \cup {f \in P2PFrames : /\ deserialize(f, pwd).message.tid = 1
                             /\ deserialize(f, pwd).reqId = 1}

\* a supervised server and one connection that sends requests and pushes
\* next to its heartbeats, or instead of them
NextLive ==
    \/ Start /\ now = 0
    \/ Accept /\ cycleTicker # NoTicker /\ increment = 1 /\ now = 0
    \/ SetRouter("echo")
    \/ \E f \in LiveFrames : OnMessage(1, f)
    \/ Elapse(MaxHeartTime)
    \/ OnServerLifeCycle

SpecLive == Init /\ [][NextLive]_vars

\* the Bridge Client: its connection, timer, requests and inbound frames
NextClient ==
    \/ Connect
    \/ OnSocketOpen
    \/ OnSocketClose
    \/ OnSocketError
    \/ OnStaleClose
    \/ OnStaleError
    \/ Tick
    \/ Advance
    \/ \E cb \in BOOLEAN : Request(cb)
    \/ \E f \in ClientFrames : OnSocketMessage(f)
    \/ \E f \in ClientFrames : OnStaleMessage(f)
    \/ Disconnect
    \/ PauseReconnect
    \/ ResumeReconnect

SpecClient == InitClient /\ [][NextClient]_vars

\* a client whose connection attempts are overtaken by its retries: the
\* only close and error events are those of sockets it has replaced
NextStale ==
    \/ Connect
    \/ OnSocketOpen
    \/ Tick
    \/ Advance
    \/ \E cb \in BOOLEAN : Request(cb)
    \/ OnStaleClose
    \/ OnStaleError

SpecStale == InitClient /\ [][NextStale]_vars

\* WssBridge.sendPackData: the frame of a request for "echo" or of a
\* heartbeat with the reqId given, under the password the client shares with
\* the server
clientFrame(route, reqId) ==
    serialize(Pack(route, reqId,
                   IF route = ROUTE_HEARTICK
                   THEN [MsgData EXCEPT !.body = "t"] ELSE MsgData),
              pwd, ConfigBinary)

\* the server accepts the connection of the socket the client is opening
LinkAccept ==
    /\ cSocket = "CONNECTING"
    /\ link = NoLink
    /\ onWebSocketConnection
    /\ link' = [sid |-> increment, frames |-> <<>>]
    /\ UNCHANGED <<cliVars, pwd, reqIdCache, now>>

\* request(): the frame, when it is handed to the socket, is in flight to
\* the session of the connection
LinkRequest(cb) ==
    /\ request(cb)
    /\ link' = IF cfx'.wire
               THEN [link EXCEPT
                        !.frames = Append(@, clientFrame("echo", reqIdInc))]
               ELSE link
    /\ UNCHANGED <<srvVars, pwd, reqIdCache, now>>

\* a tick: its heartbeat is in flight to the session of the connection, its
\* reconnect attempt leaves the old socket for a new one
LinkTick ==
    /\ onTimerTick
    /\ link' = IF cfx'.event = "retry" THEN NoLink
               ELSE IF cfx'.wire
               THEN [link EXCEPT
                        !.frames = Append(@, clientFrame(ROUTE_HEARTICK,
                                                         reqIdInc))]
               ELSE link
    /\ UNCHANGED <<srvVars, pwd, reqIdCache, now>>

\* the connection is lost: the close event of the held socket; what was in
\* flight is lost with it
LinkClose ==
    /\ onSocketClose
    /\ link' = NoLink
    /\ UNCHANGED <<srvVars, pwd, reqIdCache, now>>

\* the session of the connection reads the next frame in flight
LinkMessage ==
    /\ link.frames # <<>>
    /\ socketMessage(link.sid, Head(link.frames), NoEnv)
    /\ link' = [link EXCEPT !.frames = Tail(@)]
    /\ UNCHANGED <<cliVars, pwd, reqIdCache, now>>

\* one Bridge Client and the server it connects to, under every capacity
\* of the ring: requests, heartbeats, connection losses and reconnects, each
\* connection with its own session
NextLink ==
    \/ Connect
    \/ LinkAccept
    \/ OnSocketOpen /\ link # NoLink
    \/ SetRouter("echo")
    \/ \E cb \in BOOLEAN : LinkRequest(cb)
    \/ LinkTick
    \/ LinkMessage
    \/ LinkClose
    \/ \E s \in SessionIds \ {link.sid} : SocketClose(s)

InitLink == InitState /\ pwd = "p" /\ reqIdCache \in 1..ReqIdCache

SpecLink == InitLink /\ [][NextLink]_vars

\* the outbound cluster operations of a server, with and without a dispatch
\* callback, before and after start() and while peer 1 is or is not connected
NextCluster ==
    \/ StartLinked
    \/ OnSocketOpen
    \/ OnSocketClose
    \/ \E u \in UIDs, d \in Peers \cup {NoDispatch}, w \in Words :
            PushClusterSession(u, d, w)
    \/ \E g \in Gids, d \in Peers \cup {NoDispatch}, w \in Words :
            PushClusterChannel(g, d, w)
    \/ \E d \in Peers \cup {NoDispatch}, w \in Words : ClusterBroadcast(d, w)
    \/ \E d \in Peers \cup {NoDispatch}, rnd \in Peers, w \in Words :
            CallRemote(d, rnd, w)
    \/ \E d \in Peers \cup {NoDispatch}, rnd \in Peers, w \in Words :
            CallRemoteForResult(d, rnd, w)

SpecCluster == InitClient /\ [][NextCluster]_vars

\* frames pushed to a client with listeners: a push for each route, a JSON
\* scalar, garbage, the answer to a request nobody made and a heartbeat echo
ListenFrames ==
    {[key |-> pwd, binary |-> FALSE, body |-> b] :
        b \in {CObject("object", r, NotNumber, CMsg("data", NoCode, 0)) :
                    r \in ListenRoutes}
               \cup {CObject(j, Undefined, NotNumber,
                             CMsg("undefined", NoCode, 0)) :
                        j \in {"scalar", "garbage"}}
               \cup {CObject("object", ROUTE_RESPONSE, 0,
                             CMsg("resp", CODE_OK, 0)),
                     CObject("object", ROUTE_HEARTICK, NotNumber,
                             CMsg("time", NoCode, 0))}}

\* a client with listeners: the application adds and removes them, and
\* frames arrive on the open connection
NextListen ==
    \/ Connect
    \/ OnSocketOpen
    \/ \E r \in ListenRoutes, once \in BOOLEAN, cb \in Callbacks :
            AddListener(r, once, cb)
    \/ \E r \in ListenRoutes, cb \in Callbacks \cup {NoCallback} :
            RemoveListener(r, cb)
    \/ \E f \in ListenFrames : OnSocketMessage(f)

SpecListen == InitClient /\ [][NextListen]_vars

\* frames that cannot be decoded: text that is not JSON, and a push
\* serialized under another password or as binary
BadFrames ==
    {[key |-> pwd, binary |-> FALSE,
      body |-> CObject("garbage", Undefined, NotNumber,
                       CMsg("undefined", NoCode, 0))]}
    \cup {[key |-> k, binary |-> b,
           body |-> CObject("object", "evt", NotNumber,
                            CMsg("data", NoCode, 0))] :
            k \in {"p", "q"} \ {pwd}, b \in BOOLEAN}

\* a client with or without a password, with pending requests and
\* listeners, that receives frames it can and cannot decode
NextDecode ==
    \/ Connect
    \/ OnSocketOpen
    \/ OnSocketClose
    \/ Tick
    \/ \E cb \in BOOLEAN : Request(cb)
    \/ \E once \in BOOLEAN : AddListener("evt", once, "f")
    \/ \E f \in ClientFrames : OnSocketMessage(f)
    \/ \E f \in BadFrames : OnSocketMessage(f)

SpecDecode == InitMessage /\ [][NextDecode]_vars

\* a server linked to peers: start, calls for a result dispatched to peer 1,
\* the events of that peer's sockets and close; the client's 1 Hz timer and the clock keep step
\* (one tick for every unit of time), and a call is made while enough time
\* is left for its timeout to be seen
RemoteTick == Tick /\ timerInc < now
RemoteElapse == Elapse(MaxTicks) /\ (timer => timerInc = now)
RemoteCall ==
    /\ cycleTicker # NoTicker \/ expired
    /\ now + Timeout < MaxTicks
    /\ \E word \in Words : CallRemoteForResult(1, 1, word)

NextRemote ==
    \/ StartLinked /\ now = 0
    \/ OnServerLifeCycle
    \/ RemoteCall
    \/ OnSocketOpen
    \/ OnSocketClose
    \/ OnSocketError
    \/ OnStaleClose
    \/ OnStaleError
    \/ \E f \in ClientFrames : OnSocketMessage(f)
    \/ \E f \in ClientFrames : OnStaleMessage(f)
    \/ RemoteTick
    \/ RemoteElapse
    \/ Close /\ cycleTicker # NoTicker

\* the interval of the client fires, time passes, and the cycle of the
\* server runs when it is due
SpecRemote ==
    /\ InitClient
    /\ [][NextRemote]_vars
    /\ WF_vars(RemoteTick)
    /\ WF_vars(RemoteElapse)
    /\ WF_vars(OnServerLifeCycle)

(* ------------------------------- claims -------------------------------- *)
\* C1: for every session S and uid u, sessions[u] == S exactly when
\* S.uid == u (so each uid maps to at most one session and each session is
\* indexed under at most one uid).
UidIndexInv ==
    \A s \in SessionIds, u \in UIDs : (sessionMap[Key(u)] = s) <=> (uid[s] = u)

\* C2: bindUid(B, u, closeOld = true) while another session A holds u calls
\* A.close(4009), leaves A's socket reference dropped (closed with 4009 when
\* the socket was still open) and sessions[u] == B; and the close handler of
\* a session never changes an index entry that names another session.
UidDisplacement ==
    [][ /\ \A s \in SessionIds, u \in UIDs :
            (BindUid(s, u, TRUE) /\ sessionMap[Key(u)] \notin {NoSession, s})
            => LET a == sessionMap[Key(u)]
               IN  /\ fx' = CloseFx(a, CODE_NEWBIND)
                   /\ ~socket'[a]
                   /\ (socket[a] /\ readyState[a] = "OPEN")
                        => (closeCode'[a] = CODE_NEWBIND /\ readyState'[a] = "CLOSING")
                   /\ sessionMap'[Key(u)] = s
        /\ \A a \in SessionIds, u \in UIDs :
            (SocketClose(a) /\ sessionMap[Key(u)] \notin {NoSession, a})
            => sessionMap'[Key(u)] = sessionMap[Key(u)]
      ]_vars

\* C2 witness: A was closed with 4009, its close event has been handled, and
\* the uid is still indexed to the open session B that displaced it.
UidDisplacementWitness ==
    \E a \in SessionIds, b \in SessionIds, u \in UIDs :
        /\ a # b
        /\ closeCode[a] = CODE_NEWBIND
        /\ readyState[a] = "CLOSED"
        /\ sessionMap[Key(u)] = b
        /\ uid[b] = u
        /\ readyState[b] = "OPEN"

\* C3: a channel record exists for g iff its count is positive, its count is
\* the size of its member set, and joining a channel the session is already
\* a member of changes neither the registry nor the session's channel set.
ChannelCountInv ==
    /\ [](\A g \in Gids :
            /\ channelMap[g].present <=> channelMap[g].count > 0
            /\ channelMap[g].count = Cardinality(channelMap[g].sessions))
    /\ [][\A s \in SessionIds, g \in Gids :
            (JoinChannel(s, g) /\ channelMap[g].present
                /\ s \in channelMap[g].sessions)
            => UNCHANGED <<channel, channelMap>>]_vars

\* C3 witness: a channel with two open members next to an absent channel.
ChannelCountWitness ==
    \E g \in Gids, h \in Gids :
        /\ channelMap[g].count = 2
        /\ \A m \in channelMap[g].sessions : readyState[m] = "OPEN"
        /\ ~channelMap[h].present

(* --- claim vocabulary for the receive pipeline --- *)
\* the packet passes the shape check
WellFormed(p) ==
    /\ ~p.null
    /\ p.route \notin {Undefined, NonString}
    /\ p.reqId # NotNumber
    /\ p.message.kind \notin {"undefined", "null"}
\* MD5(route || word || secret) computed by the recipient equals the sign
SignMatches(m) ==
    m.kind = "inner" /\ m.sign = getMd5(<<m.route, m.word, Secret>>)
\* the last step closed s with `code' and did nothing else observable
ClosedWith(s, code) ==
    /\ fx' = CloseFx(s, code)
    /\ ~socket'[s]
    /\ (socket[s] /\ readyState[s] = "OPEN")
         => (closeCode'[s] = code /\ readyState'[s] = "CLOSING")
\* the routes the server dispatches as inner cluster routes
InnerRoutes ==
    {ROUTE_INNERP2P, ROUTE_INNERGRP, ROUTE_INNERALL, ROUTE_INNERRMC}
Deliveries == {"pushSession", "pushChannel", "broadcast", "remote"}

\* C4: the ring of a session never holds a request id twice, and a
\* well-formed packet whose reqId is in the ring closes the session with 4003,
\* invokes no handler and leaves the ring (and lastHeart) unchanged.
DuplicateReqId ==
    /\ [](\A s \in SessionIds : \A i, j \in 1..Len(reqIdList[s]) :
            i # j => reqIdList[s][i] # reqIdList[s][j])
    /\ [][\A s \in Created, f \in Frames :
            LET p == deserialize(f, pwd)
            IN  (OnMessage(s, f) /\ WellFormed(p)
                    /\ p.reqId \in Range(reqIdList[s]))
                => /\ ClosedWith(s, CODE_REPEAT)
                   /\ reqIdList' = reqIdList
                   /\ lastHeart' = lastHeart]_vars

\* C4 witness: a session that had accepted requests was closed with 4003.
DuplicateReqIdWitness ==
    \E s \in SessionIds :
        /\ fx = CloseFx(s, CODE_REPEAT)
        /\ closeCode[s] = CODE_REPEAT
        /\ Len(reqIdList[s]) = ReqIdCache

FrameOutcomeOrder ==
    [][\A s \in Created, f \in Frames :
        LET p == deserialize(f, pwd)
        IN  OnMessage(s, f)
            => /\ p.null
                    => ClosedWith(s, CODE_PARSE) /\ reqIdList' = reqIdList
               /\ (~p.null /\ ~WellFormed(p))
                    => ClosedWith(s, CODE_FORMAT) /\ reqIdList' = reqIdList
               /\ (WellFormed(p) /\ p.reqId \in Range(reqIdList[s]))
                    => ClosedWith(s, CODE_REPEAT)
               /\ (WellFormed(p) /\ p.reqId \notin Range(reqIdList[s]))
                    => /\ fx'.closeCode \notin {CODE_PARSE, CODE_FORMAT, CODE_REPEAT}
                       /\ p.reqId \in Range(reqIdList'[s])
                       /\ (fx'.closeCode = 0) # (fx'.call = "none")
               /\ fx'.call \in {"router", "remote"}
                    => (WellFormed(p) /\ p.reqId \notin Range(reqIdList[s]))]_vars

\* C9 witness: a session that had accepted a request was closed with 4002 on
\* a malformed packet.
FrameOutcomeOrderWitness ==
    \E s \in SessionIds :
        /\ fx = CloseFx(s, CODE_FORMAT)
        /\ closeCode[s] = CODE_FORMAT
        /\ reqIdList[s] # <<>>

\* C10: a packet on the route `$innerGRP$` is delivered with
\* pushChannel(inner.tid, inner.route, inner.message) when its envelope
\* verifies and closes the session with 4004 when it does not; it is never
\* looked up as a user route.
InnerGrpRoute ==
    [][\A s \in Created, f \in Frames :
        LET p == deserialize(f, pwd)
        IN  ( /\ OnMessage(s, f)
              /\ WellFormed(p)
              /\ p.reqId \notin Range(reqIdList[s])
              /\ p.route = SPEC_INNERGRP )
            => /\ fx'.call # "router"
               /\ fx'.closeCode # CODE_ROUTE
               /\ (SignMatches(p.message) /\ p.message.tid # NoTid)
                    => /\ fx'.call = "pushChannel"
                       /\ fx'.tid = p.message.tid
                       /\ fx'.route = p.message.route
               /\ ~SignMatches(p.message) => ClosedWith(s, CODE_SIGN)]_vars

\* the routes the design document reserves, and the ones the server
\* dispatches itself
ReservedRoutes ==
    InnerRoutes \cup {ROUTE_HEARTICK, ROUTE_RESPONSE, SPEC_INNERGRP}
\* the last step invoked handler `call' for `route' and did nothing else
Invoked(call, route, reqId) ==
    fx' = [NoFx EXCEPT !.call = call, !.route = route, !.reqId = reqId,
                       !.message = fx'.message]

\* C11: for a packet that passed the decode, shape and duplicate checks: a
\* route that is not reserved and has no setRouter handler closes the session
\* with 4006 and runs no handler; a verified $innerRMC$ whose inner route has
\* no setRemote handler closes it with 4005 and runs no handler; otherwise
\* exactly the handler registered for the route is invoked, once.
RouteDispatch ==
    [][\A s \in Created, f \in Frames :
            LET p == deserialize(f, pwd)
            IN  ( /\ OnMessage(s, f)
                  /\ WellFormed(p)
                  /\ p.reqId \notin Range(reqIdList[s]) )
                => /\ (p.route \notin ReservedRoutes /\ p.route \notin routerMap)
                        => ClosedWith(s, CODE_ROUTE)
                   /\ (p.route \notin ReservedRoutes /\ p.route \in routerMap)
                        => Invoked("router", p.route, p.reqId)
                   /\ ( /\ p.route = ROUTE_INNERRMC
                        /\ SignMatches(p.message)
                        /\ p.message.route \notin remoteMap )
                        => ClosedWith(s, CODE_REMOTE)
                   /\ ( /\ p.route = ROUTE_INNERRMC
                        /\ SignMatches(p.message)
                        /\ p.message.route \in remoteMap )
                        => Invoked("remote", p.message.route, p.reqId)]_vars

\* C12: on an accepted $heartick$ packet the server stamps the session's
\* lastHeart with the current time and hands to that session's socket exactly
\* one $heartick$ packet with the same reqId and the same message; no user
\* handler is invoked, even when one is registered under $heartick$.
HeartbeatEcho ==
    [][\A s \in Created, f \in HeartFrames :
            LET p == deserialize(f, pwd)
            IN  ( /\ OnMessage(s, f)
                  /\ WellFormed(p)
                  /\ p.route = ROUTE_HEARTICK
                  /\ p.reqId \notin Range(reqIdList[s]) )
                => /\ lastHeart'[s] = now
                   /\ fx'.call = "sendHeartick"
                   /\ fx'.closeCode = 0
                   /\ \E d \in {x.data : x \in fx'.frames} :
                        /\ fx'.frames = {[sid |-> s, data |-> d, n |-> 1]}
                        /\ deserialize(d, pwd)
                             = Pack(ROUTE_HEARTICK, p.reqId, p.message)]_vars

\* a run of WssServer._onServerLifeCycle
CycleStep == cycleTicker # NoTicker /\ cycleTicker' # cycleTicker

\* the socket of session s is held by its session and open
Open(s) == s \in socketMap /\ socket[s] /\ readyState[s] = "OPEN"

\* C13: a supervisor cycle closes with 4008 every open session for which
\* now > lastHeart + timeout and leaves alone every session for which
\* now <= lastHeart + timeout; with the cycles of a started server running
\* every Cycle, no session stays open past lastHeart + timeout + cycle.
HeartbeatTimeout ==
    /\ [][CycleStep =>
            \A s \in Created :
                /\ (Open(s) /\ now > lastHeart[s] + ServerTimeout)
                      => /\ ~socket'[s]
                         /\ readyState'[s] = "CLOSING"
                         /\ closeCode'[s] = CODE_TIMEOUT
                /\ now <= lastHeart[s] + ServerTimeout
                      => /\ socket'[s] = socket[s]
                         /\ readyState'[s] = readyState[s]
                         /\ closeCode'[s] = closeCode[s]]_vars
    /\ [](\A s \in Created :
            Open(s) => now <= lastHeart[s] + ServerTimeout + Cycle)

\* a session that sent a heartbeat and then went silent has been closed with
\* 4008, at the last moment the bound allows
HeartbeatTimeoutWitness ==
    \E s \in socketMap :
        /\ lastHeart[s] > 0
        /\ closeCode[s] = CODE_TIMEOUT
        /\ ~socket[s]
        /\ now = lastHeart[s] + ServerTimeout + Cycle

\* C18: broadcast hands exactly one frame to every session that is
\* UID-bound and open, hands no frame to a session without a bound uid, and
\* changes no registry.
BroadcastTargets ==
    [][fx'.call = "broadcast"
        => /\ \A s \in SessionIds :
                IF s \in socketMap /\ uid[s] # NoUid /\ Open(s)
                THEN \E x \in fx'.frames : /\ x.sid = s
                                           /\ x.n = 1
                                           /\ \A y \in fx'.frames :
                                                y.sid = s => y = x
                ELSE \A x \in fx'.frames : x.sid # s
           /\ UNCHANGED <<socketMap, sessionMap, channelMap, uid, channel>>]_vars

\* the reserved route of each outbound cluster operation
InnerRouteOf(call) ==
    CASE call = "pushClusterSession" -> ROUTE_INNERP2P
      [] call = "pushClusterChannel" -> SPEC_INNERGRP
      [] call = "clusterBroadcast" -> ROUTE_INNERALL
      [] OTHER -> ROUTE_INNERRMC
\* the last step issued exactly one request to each peer of ps and none to
\* any other peer, all on the route of the operation with one envelope
IssuedTo(ps) ==
    /\ {x.peer : x \in fx'.requests} = ps
    /\ \A x \in fx'.requests :
            /\ x.n = 1
            /\ x.route = InnerRouteOf(fx'.call)
            /\ \A y \in fx'.requests :
                    /\ y.peer = x.peer => y = x
                    /\ y.env = x.env
            /\ x.env.sign = getMd5(<<x.env.route, x.env.word, Secret>>)

\* C19: pushClusterSession, pushClusterChannel and clusterBroadcast issue one
\* request on their inner route to every peer of the group, all with the
\* same envelope, or with a dispatch callback one request to the peer it
\* returns; callRemote and callRemoteForResult issue one request to one peer.
ClusterFanOut ==
    [][\A d \in Peers \cup {NoDispatch}, w \in Words :
        /\ ( \/ \E u \in UIDs : PushClusterSession(u, d, w)
             \/ \E g \in Gids : PushClusterChannel(g, d, w)
             \/ ClusterBroadcast(d, w) )
            => IssuedTo(IF d = NoDispatch THEN Peers ELSE {d})
        /\ \A rnd \in Peers :
            (CallRemote(d, rnd, w) \/ CallRemoteForResult(d, rnd, w))
            => /\ \E p \in Peers : IssuedTo({p})
               /\ d # NoDispatch => IssuedTo({d})]_vars

\* C20: when the close event of session S has been handled, S is not in
\* `sockets`, is the value of no uid in `sessions`, is a member of no
\* channel, and every channel S was the last member of is gone.
CloseCleanup ==
    [][\A s \in SessionIds :
        SocketClose(s)
        => /\ s \notin socketMap'
           /\ \A u \in UIDs : sessionMap'[Key(u)] # s
           /\ \A g \in Gids :
                /\ channelMap'[g].present => s \notin channelMap'[g].sessions
                /\ (channelMap[g].present /\ channelMap[g].sessions = {s})
                     => ~channelMap'[g].present]_vars

\* C21: the server closes the underlying socket of a session at most once,
\* with the code of the first close call: a close code, once set, never
\* changes, and a dropped socket reference is never held again; a frame is
\* handed only to a socket that is held and open, so send on a closed
\* session hands nothing over.
FirstCloseWins ==
    /\ [][\A s \in Created :
            /\ closeCode[s] # 0 => closeCode'[s] = closeCode[s]
            /\ ~socket[s] => ~socket'[s]
            /\ (closeCode[s] = 0 /\ closeCode'[s] # 0)
                    => socket[s] /\ ~socket'[s] /\ readyState[s] = "OPEN"
            /\ \A x \in fx'.frames :
                    x.sid = s => socket[s] /\ readyState[s] = "OPEN"]_vars
    /\ [](\A s \in Created :
            ~socket[s] => SessionSend(s, serialize(PushPack("evt", "m"), pwd,
                                                  ConfigBinary)) = {})

\* a session the server closed for a repeated reqId has since been found
\* expired by a supervisor cycle, and its close code is still 4003
FirstCloseWinsWitness ==
    \E s \in socketMap :
        /\ fx.call = "lifeCycle"
        /\ closeCode[s] = CODE_REPEAT
        /\ ~socket[s]
        /\ now > lastHeart[s] + ServerTimeout

\* C22: for every packet, password and binary mode, deserialize of what
\* serialize made, under the same password, is the packet; and input that
\* is cut short, made under another password or not JSON deserializes to the
\* failure value.
CodecRoundTrip ==
    /\ \A pk \in CodecPacks, b \in BOOLEAN :
            deserialize(serialize(pk, pwd, b), pwd) = pk
    /\ \A pk \in CodecPacks, k \in CodecKeys, b \in BOOLEAN :
            LET data == serialize(pk, k, b)
            IN  /\ deserialize(Truncated(data), pwd).null
                /\ k # pwd => deserialize(data, pwd).null

(* ------------------------- claims: Bridge Client ----------------------- *)
\* a request is pending, and its age
Pending(r) == requests[r] # NoRequest
Age(r) == now - requests[r]
\* a step of the timer
TickStep == timerInc' # timerInc
\* the error callback of r receives {code: 504} in this step
Fires504(r) ==
    /\ Len(callError'[r]) = Len(callError[r]) + 1
    /\ callError'[r][Len(callError'[r])] = CODE_GATEWAY

CompletedOnce ==
    [][/\ \A r \in CReqIds :
            /\ callSuccess'[r] + Len(callError'[r]) <= 1
            /\ (callSuccess'[r] # callSuccess[r] \/ callError'[r] # callError[r])
                  => Pending(r) /\ requests'[r] = NoRequest
       /\ ( /\ cfx'.op = "message"
            /\ cfx'.route = ROUTE_RESPONSE
            /\ (cfx'.reqId \in CReqIds => ~Pending(cfx'.reqId)) )
          => UNCHANGED <<callSuccess, callError, netDelay, requests>>
      ]_vars

\* a $response$ arrived for a request the sweep had already completed with
\* 504
CompletedOnceWitness ==
    \E r \in CReqIds : /\ cfx.op = "message"
                       /\ cfx.route = ROUTE_RESPONSE
                       /\ cfx.reqId = r
                       /\ callSuccess[r] = 0
                       /\ callError[r] = <<CODE_GATEWAY>>
                       /\ r \in inflight

\* C7: a request() with a callback issued while the client is not connected
\* hands no frame to a socket, then or after a later reconnect; it installs
\* a pending entry and reports no failure synchronously; the entry is
\* completed by nothing but the error callback with code 504, fired by the
\* first tick that finds its age above timeout.
UnsentRequest ==
    [][/\ offline' \cap sent' = {}
       /\ \A r \in offline' \ offline :
            /\ cfx'.op = "request" /\ cfx'.reqId = r
            /\ cfx'.onerror = "none"
            /\ requests'[r] = now
            /\ UNCHANGED <<callSuccess, callError>>
       /\ \A r \in offline :
            /\ callSuccess'[r] = 0
            /\ callError'[r] \in {<<>>, <<CODE_GATEWAY>>}
            /\ callError'[r] = <<>> <=> requests'[r] # NoRequest
            /\ callError'[r] # callError[r] => Age(r) > Timeout
            /\ TickStep /\ Pending(r) /\ Age(r) > Timeout
                  => callError'[r] = <<CODE_GATEWAY>>
      ]_vars

\* a request issued while not connected timed out with 504 although the
\* client had reconnected, and its frame was never sent
UnsentRequestWitness ==
    \E r \in offline : /\ r \notin sent
                       /\ callError[r] = <<CODE_GATEWAY>>
                       /\ cSocket = "OPEN"
                       /\ retryCnt = 0
                       /\ timerInc > 0
\* the conditions of the reconnect branch of the tick that is about to run
ReconnectDue ==
    ~isConnected(cSocket) /\ ~paused /\ (timerInc + 1) % Conntick = 0
\* the held socket reports that it is open
OpenStep == cSocket = "CONNECTING" /\ cSocket' = "OPEN"

Attempt ==
    /\ cSocket' = "CONNECTING"
    /\ cfx'.closed = safeCloseCode(cSocket, CODE_RETRY)
    /\ stale' = safeClose(cSocket, stale)

\* C15: on a tick a reconnect attempt is made if and only if the client is
\* not connected, not paused and timerInc mod conntick = 0; a tick of a
\* paused client still sweeps the timed-out requests; and the ticker stops
\* only by disconnect, so the attempts recur for as long as the outage lasts.
ReconnectAttempts ==
    [][/\ TickStep => (Attempt <=> ReconnectDue)
       /\ (TickStep /\ paused)
            => \A r \in CReqIds : (Pending(r) /\ Age(r) > Timeout) => Fires504(r)
       /\ (timer /\ ~timer') => expired']_vars

\* C16: disconnect closes the held socket with 4104, drops it and stops the
\* ticker; from then on, whatever follows (request, connect, pause and
\* resume, ticks, events of sockets dropped earlier), the client stays
\* expired, holds no socket, hands no frame to a socket, processes no
\* inbound frame and fires no close or error callback.
DisconnectTerminal ==
    [][/\ (~expired /\ expired')
            => /\ cfx'.closed = safeCloseCode(cSocket, CODE_CALL)
               /\ cSocket' = "null"
               /\ ~timer'
       /\ expired
            => /\ expired'
               /\ cSocket' = "null"
               /\ ~cfx'.wire /\ sent' = sent /\ hbTime' = hbTime
               /\ cfx'.op # "message"
               /\ netDelay' = netDelay /\ callSuccess' = callSuccess
               /\ cfx'.event \notin {"close", "error"}
               /\ cfx'.onerror = "none"]_vars

\* connect was called after disconnect, and a frame or an event of the
\* socket that disconnect closed has just been dropped
DisconnectTerminalWitness ==
    /\ expired
    /\ timer
    /\ stale > 0
    /\ cfx.op = "expired"

\* C17: the promise of every callRemoteForResult is eventually resolved
\* with a response envelope: its request does not stay pending for ever.
RemoteResultResolves ==
    \A r \in CReqIds : Pending(r) ~> ~Pending(r)

\* C23: when a verified $innerRMC$ packet arrives and a remote handler is
\* registered for the inner route, the handler receives the packet (inner
\* route, outer reqId, inner message); when it answers with
\* response(session, packet, env), one $response$ packet with that reqId and
\* env is handed to the session's socket, and the caller's client, on reading
\* it with the request pending, completes the request with env: the success
\* callback for code 200, the error callback with the code otherwise.
RemoteRoundTrip ==
    /\ [][\A s \in Created, f \in RemoteFrames, env \in Envs :
            LET p == deserialize(f, pwd)
            IN  ( /\ onMessage(s, f, env)
                  /\ p.reqId \notin Range(reqIdList[s])
                  /\ validateInnerData(p.message)
                  /\ p.message.route \in remoteMap )
                => /\ fx'.call = "remote"
                   /\ fx'.route = p.message.route
                   /\ fx'.reqId = p.reqId
                   /\ fx'.message = p.message.body
                   /\ fx'.env = env
                   /\ \E d \in {x.data : x \in fx'.frames} :
                        /\ fx'.frames = {[sid |-> s, data |-> d, n |-> 1]}
                        /\ deserialize(d, pwd)
                             = Pack(ROUTE_RESPONSE, p.reqId, env)]_vars
    /\ [][\A x \in fx.frames :
            LET p == deserialize(x.data, pwd)
            IN  ( /\ OnSocketMessage(x.data)
                  /\ p.route = ROUTE_RESPONSE
                  /\ p.reqId \in CReqIds
                  /\ Pending(p.reqId) )
                => /\ ~Pending(p.reqId)'
                   /\ IF p.message.code = CODE_OK
                      THEN /\ callSuccess'[p.reqId] = callSuccess[p.reqId] + 1
                           /\ callError' = callError
                      ELSE /\ callError'[p.reqId]
                                = Append(callError[p.reqId], p.message.code)
                           /\ callSuccess' = callSuccess]_vars

\* C24: when the client reads a packet with a string route other than
\* $heartick$ and $response$, callMessage is called once on every listener
\* registered for that route at that moment, in registration order, with the
\* message of the packet; afterwards no listener flagged once is registered
\* for the route, and the listeners of every other route are as they were
\* and none of them was called.
ListenersFire ==
    [][\A f \in ListenFrames :
            LET p == deserialize(f, pwd)
                l == listeners[p.route]
            IN  ( /\ OnSocketMessage(f)
                  /\ ~p.null
                  /\ p.route \in ListenRoutes )
                => /\ Len(cfx'.invoked) = Len(l)
                   /\ \A i \in 1..Len(l) :
                        cfx'.invoked[i] = [listener |-> l[i],
                                           message |-> p.message]
                   /\ \A i \in 1..Len(listeners'[p.route]) :
                        ~listeners'[p.route][i].once
                   /\ \A r \in ListenerKeys \ {p.route} :
                        listeners'[r] = listeners[r]]_vars

\* a push was read with two listeners of its route flagged once and one of
\* another route registered: both were called in order, none is left, and
\* the other route keeps its listener
ListenersFireWitness ==
    /\ cfx.op = "message"
    /\ cfx.route = "evt"
    /\ Len(cfx.invoked) = 2
    /\ cfx.invoked[1].listener = Listener(TRUE, "f")
    /\ cfx.invoked[2].listener = Listener(TRUE, "g")
    /\ listeners["evt"] = <<>>
    /\ listeners["msg"] # <<>>

UndecodableFrame ==
    [][\A f \in BadFrames :
            OnSocketMessage(f)
            => /\ cfx'.onerror = "Deserialize Error"
               /\ cfx'.invoked = <<>>
               /\ UNCHANGED <<cSocket, requests, listeners, netDelay,
                              retryCnt, callSuccess, callError>>]_vars

\* C27: for every capacity reqIdCache >= 1 the ring never holds more than
\* reqIdCache ids; a new id that arrives with the ring full is appended
\* after the oldest reqIdCache \div 2 ids were dropped, any other new id is
\* appended, and a repeated id leaves the ring as it is, so the ids are kept
\* in arrival order.
RingBounded ==
    /\ [](\A s \in Created : Len(reqIdList[s]) <= reqIdCache)
    /\ [][\A s \in Created, f \in RingFrames :
            LET i == deserialize(f, pwd).reqId
                l == reqIdList[s]
            IN  OnMessage(s, f)
                => reqIdList'[s] =
                     IF i \in Range(l) THEN l
                     ELSE IF Len(l) = reqIdCache
                     THEN Append(SubSeq(l, (reqIdCache \div 2) + 1, Len(l)), i)
                     ELSE Append(l, i)]_vars

\* C28: an inner envelope whose tid or message is not the one the sending
\* node passed when it generated the word and sign of the envelope is not
\* delivered: the session it arrives on is closed with 4004.
SignCoversEnvelope ==
    [][\A s \in Created, f \in SignFrames :
            LET p == deserialize(f, pwd)
            IN  ( /\ OnMessage(s, f)
                  /\ p.reqId \notin Range(reqIdList[s])
                  /\ p.message # Signed(p.message.word) )
                => /\ fx'.call \notin Deliveries
                   /\ ClosedWith(s, CODE_SIGN)]_vars

\* a frame was accepted before on some connection: its reqId is in a ring.
\* Where every frame carries the one verified envelope, that envelope has
\* been delivered
Replayed == \E t \in SessionIds : reqIdList[t] # <<>>

\* C29: a signed inner envelope the node has already delivered is not
\* delivered a second time when it arrives again, in a packet with a fresh
\* outer reqId or on a new connection.
ReplayDefense ==
    [][\A s \in Created, f \in ReplayFrames :
            (OnMessage(s, f) /\ Replayed) => fx'.call \notin Deliveries]_vars

\* C30: the close event of a session calls the session-close listener once,
\* before any cleanup: the listener finds the session in `sockets`, a member
\* of every channel it has joined, and with the uid and the entries of
\* `sessions` it had when the event arrived; the event is handled at most
\* once for a session, and no other step calls the listener.
CloseListenerFirst ==
    [][/\ \A s \in SessionIds :
            SocketClose(s)
            => /\ readyState[s] # "CLOSED" /\ readyState'[s] = "CLOSED"
               /\ fx'.call = "sessionCloseListener"
               /\ fx'.view.sid = s
               /\ fx'.view.inSockets
               /\ fx'.view.channel = channel[s]
               /\ fx'.view.uid = uid[s]
               /\ fx'.view.keys = {k \in DOMAIN sessionMap : sessionMap[k] = s}
               /\ isBinded(uid[s]) => Key(uid[s]) \in fx'.view.keys
       /\ \A s \in SessionIds : readyState[s] = "CLOSED" => readyState'[s] = "CLOSED"
       /\ fx'.call = "sessionCloseListener"
            => \E s \in SessionIds : readyState[s] # "CLOSED" /\ readyState'[s] = "CLOSED"
      ]_vars

\* the listener was called for a session that was bound to a uid and a
\* member of a channel, both of which the cleanup then removed
CloseListenerFirstWitness ==
    \E s \in SessionIds :
        /\ fx.call = "sessionCloseListener"
        /\ fx.view.sid = s
        /\ fx.view.inSockets /\ s \notin socketMap
        /\ fx.view.channel = {1} /\ channel[s] = {}
        /\ fx.view.uid = 1 /\ uid[s] = NoUid
        /\ fx.view.keys = {Key(1)} /\ sessionMap[Key(1)] = NoSession

\* the step handles a verified $innerP2P$ packet for uid u that session s
\* sent with a fresh reqId
P2PStep(s, f, u) ==
    LET p == deserialize(f, pwd)
    IN  /\ OnMessage(s, f)
        /\ p.reqId \notin Range(reqIdList[s])
        /\ p.message.tid = u

\* the step changes no registry and closes no session
P2PQuiet ==
    /\ fx'.closeCode = 0
    /\ UNCHANGED <<socketMap, sessionMap, channelMap, uid, channel, socket,
                   readyState, closeCode>>

\* the frames of the step are one frame for session x with the inner route
\* and message of f
P2POneFrame(x, f) ==
    LET m == deserialize(f, pwd).message
    IN  \E d \in {y.data : y \in fx'.frames} :
            /\ fx'.frames = {[sid |-> x, data |-> d, n |-> 1]}
            /\ deserialize(d, pwd) = PushPack(m.route, m.body)

\* C31 as stated: a verified $innerP2P$ for a uid with no locally bound
\* session delivers nothing, changes no registry and closes no session; for
\* a uid that is bound, exactly one frame with the inner route and message
\* is sent to the bound session.
PushLocalOnly ==
    [][\A f \in P2PFrames, u \in UIDs :
            P2PStep(1, f, u)
            => /\ P2PQuiet
               /\ sessionMap[Key(u)] = NoSession => fx'.frames = {}
               /\ sessionMap[Key(u)] # NoSession
                    => P2POneFrame(sessionMap[Key(u)], f)]_vars

\* C31 amended: as above, with the one frame sent when the socket of the
\* bound session is held and open, and nothing sent when the server has
\* closed it and its close event is still to come.
PushLocalOpen ==
    [][\A f \in P2PFrames, u \in UIDs :
            P2PStep(1, f, u)
            => /\ P2PQuiet
               /\ sessionMap[Key(u)] = NoSession => fx'.frames = {}
               /\ (sessionMap[Key(u)] # NoSession /\ Open(sessionMap[Key(u)]))
                    => P2POneFrame(sessionMap[Key(u)], f)
               /\ (sessionMap[Key(u)] # NoSession /\ ~Open(sessionMap[Key(u)]))
                    => fx'.frames = {}]_vars

\* a push for uid 1 was handed to the open session bound to uid 1, with
\* session 1, which sent it, still open
PushLocalOpenWitness ==
    /\ fx.call = "pushSession"
    /\ fx.tid = 1
    /\ sessionMap[Key(1)] = 2
    /\ \E y \in fx.frames : y.sid = 2 /\ y.n = 1
    /\ Open(1)

\* C32: a close or error event of a socket that the client has replaced
\* leaves the socket the client holds as it is.
StaleEventsIgnored ==
    [][(OnStaleClose \/ OnStaleError) => cSocket' = cSocket]_vars

\* C33: bindUid(S, u, TRUE) on an open session S that already holds u
\* closes nothing: S stays open and bound to u, with sessions[u] = S.
RebindKeepsSelf ==
    [][\A s \in SessionIds, u \in UIDs \ {0} :
            (BindUid(s, u, TRUE) /\ sessionMap[Key(u)] = s /\ Open(s))
            => /\ Open(s)'
               /\ fx'.closeCode = 0
               /\ uid'[s] = u
               /\ sessionMap'[Key(u)] = s]_vars

\* C34: every session referenced by the uid index under a non-zero uid or
\* by the member set of a channel is present in `sockets`.
IndexedAreConnected ==
    /\ \A u \in UIDs \ {0} :
            sessionMap[Key(u)] # NoSession => sessionMap[Key(u)] \in socketMap
    /\ \A g \in Gids : channelMap[g].sessions \subseteq socketMap

\* C35: the channel set of a session and the channel registry agree: g is in
\* the joined-channel set of S exactly when S is in the member set of
\* channels[g], after any sequence of joinChannel, quitChannel,
\* deleteChannel and close events.
ChannelAgreement ==
    \A s \in SessionIds, g \in Gids :
        g \in channel[s]
        <=> (channelMap[g].present /\ s \in channelMap[g].sessions)

\* C35 witness: session 1 has closed and is in no channel, while session 2
\* is a member of channel 1 and channel 2 is absent.
ChannelAgreementWitness ==
    /\ 1 \in Created \ socketMap
    /\ channel[1] = {}
    /\ channel[2] = {1}
    /\ channelMap[1].sessions = {2}
    /\ ~channelMap[2].present

\* C36: a packet of any route other than $heartick$ leaves lastHeart of its
\* session unchanged and lastHeart of a session changes in the step of one
\* of its $heartick$ packets only; a supervisor cycle closes with 4008 every
\* open session whose lastHeart is more than timeout ago, so that no session
\* stays open past lastHeart + timeout + cycle whatever requests it sends.
OnlyHeartickStamps ==
    /\ [][\A s \in Created, f \in LiveFrames :
            (OnMessage(s, f) /\ deserialize(f, pwd).route # ROUTE_HEARTICK)
            => lastHeart'[s] = lastHeart[s]]_vars
    /\ [][\A s \in Created :
            lastHeart'[s] # lastHeart[s]
            => \E f \in LiveFrames :
                    /\ OnMessage(s, f)
                    /\ deserialize(f, pwd).route = ROUTE_HEARTICK]_vars
    /\ [][CycleStep =>
            \A s \in Created :
                (Open(s) /\ now > lastHeart[s] + ServerTimeout)
                => (~socket'[s] /\ closeCode'[s] = CODE_TIMEOUT)]_vars
    /\ [](\A s \in Created :
            Open(s) => now <= lastHeart[s] + ServerTimeout + Cycle)

\* C36 witness: the handler of "echo" is invoked for a request of a session
\* whose last heartbeat is more than timeout ago, the request leaving
\* lastHeart where it was.
OnlyHeartickStampsWitness ==
    /\ fx.call = "router"
    /\ Open(1)
    /\ lastHeart[1] > 0
    /\ now > lastHeart[1] + ServerTimeout

\* C37: once the server has closed session s itself, a frame of s that is
\* delivered before the close event of its socket invokes no handler, sends
\* nothing to any session and leaves the ring and lastHeart of s unchanged.
ClosedSessionIgnored ==
    [][\A s \in socketMap, f \in LiveFrames :
            (OnMessage(s, f) /\ ~socket[s] /\ closeCode[s] \in 4001..4009)
            => /\ fx'.call = "none"
               /\ fx'.frames = {}
               /\ reqIdList'[s] = reqIdList[s]
               /\ lastHeart'[s] = lastHeart[s]]_vars

\* C38: a packet that is read leaves registered every listener of its route
\* that was added with once = FALSE, whatever other listeners the route has:
\* the listeners left are those not flagged once, in registration order.
PersistentListenersStay ==
    [][\A f \in ListenFrames :
            LET p == deserialize(f, pwd)
            IN  ( /\ OnSocketMessage(f)
                  /\ ~p.null
                  /\ p.route \in ListenRoutes )
                => listeners'[p.route]
                     = SelectSeq(listeners[p.route], LAMBDA l : ~l.once)]_vars

\* C39: no session is closed with 4003 when the frames of every connection
\* come from one Bridge Client, whatever the capacity of the ring: no frame
\* in flight to a session carries a reqId that is in the ring of the session
\* or that another frame in flight carries.
NoRepeatFromClient ==
    /\ \A s \in SessionIds : closeCode[s] # CODE_REPEAT
    /\ \A i \in 1..Len(link.frames) :
            /\ deserialize(link.frames[i], pwd).reqId
                    \notin Range(reqIdList[link.sid])
            /\ \A j \in 1..Len(link.frames) :
                    deserialize(link.frames[i], pwd).reqId
                        = deserialize(link.frames[j], pwd).reqId
                    => i = j

\* C39 witness: the session of the second connection of the client has
\* answered a heartbeat, the session of the first one having read a request.
NoRepeatFromClientWitness ==
    /\ reqIdList[1] # <<>>
    /\ link.sid = 2
    /\ reqIdList[2] # <<>>
    /\ fx.call = "sendHeartick"

\* C40: a frame is handed to a socket only by the request() call that
\* creates it, carrying a reqId never handed before, or as the heartbeat of
\* a tick: no step of a reconnect or of a timeout hands a request frame
\* again; a pending request whose frame was sent on a connection that has
\* been lost is completed by nothing but the error callback with 504, in a
\* tick that finds its age above timeout.
RequestWiredOnce ==
    [][/\ cfx'.wire
            => \/ /\ cfx'.op = "request"
                  /\ cfx'.reqId = reqIdInc
                  /\ reqIdInc \notin sent
                  /\ sent' = sent \cup {reqIdInc}
                  /\ isConnected(cSocket)
               \/ /\ TickStep
                  /\ timerInc' % Heartick = 0
                  /\ cfx'.reqId = reqIdInc
                  /\ sent' = sent
                  /\ isConnected(cSocket)
       /\ ~cfx'.wire => sent' = sent
       /\ \A r \in CReqIds :
            (Pending(r) /\ r \in sent /\ r \notin inflight)
            => /\ callSuccess'[r] = callSuccess[r]
               /\ callError'[r]
                    \in {callError[r], Append(callError[r], CODE_GATEWAY)}
               /\ callError'[r] # callError[r]
                    => (TickStep /\ Age(r) > Timeout)
               /\ requests'[r] = NoRequest => callError'[r] # callError[r]
      ]_vars

\* C40 witness: the request was sent, its connection was lost, the client is
\* connected again, and the request, whose frame was not handed to the new
\* socket, has been completed with 504 and nothing else.
RequestWiredOnceWitness ==
    \E r \in sent :
        /\ r \notin inflight
        /\ cSocket = "OPEN"
        /\ retryCnt = 0
        /\ callSuccess[r] = 0
        /\ callError[r] = <<CODE_GATEWAY>>
        /\ requests[r] = NoRequest
        /\ cfx.count = 0 /\ cfx.event = "none" /\ cfx.op = "none"

====
